---- MODULE Spec2Model ----
(***************************************************************************)
(* openssh_key: the key envelope (key.py), the key parameter variants      *)
(* (key_params.py, key_params/common.py, key_params/dss.py), the factory   *)
(* from key type names to variants, and the Pascal-style byte stream the   *)
(* envelope reads from and writes to.                                      *)
(*                                                                         *)
(* Python values are tagged records: [t |-> "int", v |-> n] is an int,     *)
(* [t |-> "bytes", v |-> <<b1, ..., bn>>] a bytes object whose elements    *)
(* are 0..255, [t |-> "str", v |-> "..."] a str.  A dict is a function     *)
(* from names to values.  A format instructions dict is the sequence of    *)
(* its <<name, instruction>> items, in declaration order.                  *)
(***************************************************************************)
EXTENDS Integers, Sequences, FiniteSets, TLC

VARIABLES op, arg, ret, key, out, registry, readers

vars == <<op, arg, ret, key, out, registry, readers>>

----------------------------------------------------------------------------
(* Python values *)

PyInt(n) == [t |-> "int", v |-> n]
PyBytes(b) == [t |-> "bytes", v |-> b]
PyStr(s) == [t |-> "str", v |-> s]

\* n copies of byte b
Rep(b, n) == [i \in 1..n |-> b]

EmptyDict == [n \in {} |-> PyInt(0)]

\* dict with the single item name: value
Item(name, value) == [n \in {name} |-> value]

\* d | e for dicts with disjoint or overriding keys (e wins)
Update(d, e) == [n \in DOMAIN d \cup DOMAIN e |-> IF n \in DOMAIN e THEN e[n] ELSE d[n]]

\* the dict d without its key name
Without(d, name) == [n \in DOMAIN d \ {name} |-> d[n]]

\* The texts of the model and their UTF-8 encodings (str.encode()).
UTF8 ==
    "" :> <<>> @@
    "ssh-rsa" :> <<115, 115, 104, 45, 114, 115, 97>> @@
    "ssh-ed25519" :> <<115, 115, 104, 45, 101, 100, 50, 53, 53, 49, 57>> @@
    "ssh-dss" :> <<115, 115, 104, 45, 100, 115, 115>> @@
    "ssh-ecdsa-nistp256" :> <<115, 115, 104, 45, 101, 99, 100, 115, 97, 45, 110, 105, 115, 116, 112, 50, 53, 54>> @@
    "ssh-ecdsa-nistp384" :> <<115, 115, 104, 45, 101, 99, 100, 115, 97, 45, 110, 105, 115, 116, 112, 51, 56, 52>> @@
    "ssh-ecdsa-nistp521" :> <<115, 115, 104, 45, 101, 99, 100, 115, 97, 45, 110, 105, 115, 116, 112, 53, 50, 49>> @@
    "sk-ecdsa-sha2-nistp256@openssh.com" :> <<115, 107, 45, 101, 99, 100, 115, 97, 45, 115, 104, 97, 50, 45, 110, 105, 115, 116, 112, 50, 53, 54, 64, 111, 112, 101, 110, 115, 115, 104, 46, 99, 111, 109>> @@
    "sk-ssh-ed25519@openssh.com" :> <<115, 107, 45, 115, 115, 104, 45, 101, 100, 50, 53, 53, 49, 57, 64, 111, 112, 101, 110, 115, 115, 104, 46, 99, 111, 109>> @@
    "ssh-rsa-cert-v01@openssh.com" :> <<115, 115, 104, 45, 114, 115, 97, 45, 99, 101, 114, 116, 45, 118, 48, 49, 64, 111, 112, 101, 110, 115, 115, 104, 46, 99, 111, 109>> @@
    "ssh-ed25519-cert-v01@openssh.com" :> <<115, 115, 104, 45, 101, 100, 50, 53, 53, 49, 57, 45, 99, 101, 114, 116, 45, 118, 48, 49, 64, 111, 112, 101, 110, 115, 115, 104, 46, 99, 111, 109>> @@
    "ssh-dss-cert-v01@openssh.com" :> <<115, 115, 104, 45, 100, 115, 115, 45, 99, 101, 114, 116, 45, 118, 48, 49, 64, 111, 112, 101, 110, 115, 115, 104, 46, 99, 111, 109>> @@
    "ecdsa-sha2-nistp256-cert-v01@openssh.com" :> <<101, 99, 100, 115, 97, 45, 115, 104, 97, 50, 45, 110, 105, 115, 116, 112, 50, 53, 54, 45, 99, 101, 114, 116, 45, 118, 48, 49, 64, 111, 112, 101, 110, 115, 115, 104, 46, 99, 111, 109>> @@
    "ecdsa-sha2-nistp384-cert-v01@openssh.com" :> <<101, 99, 100, 115, 97, 45, 115, 104, 97, 50, 45, 110, 105, 115, 116, 112, 51, 56, 52, 45, 99, 101, 114, 116, 45, 118, 48, 49, 64, 111, 112, 101, 110, 115, 115, 104, 46, 99, 111, 109>> @@
    "ecdsa-sha2-nistp521-cert-v01@openssh.com" :> <<101, 99, 100, 115, 97, 45, 115, 104, 97, 50, 45, 110, 105, 115, 116, 112, 53, 50, 49, 45, 99, 101, 114, 116, 45, 118, 48, 49, 64, 111, 112, 101, 110, 115, 115, 104, 46, 99, 111, 109>> @@
    "sk-ssh-ed25519-cert-v01@openssh.com" :> <<115, 107, 45, 115, 115, 104, 45, 101, 100, 50, 53, 53, 49, 57, 45, 99, 101, 114, 116, 45, 118, 48, 49, 64, 111, 112, 101, 110, 115, 115, 104, 46, 99, 111, 109>> @@
    "sk-ecdsa-sha2-nistp256-cert-v01@openssh.com" :> <<115, 107, 45, 101, 99, 100, 115, 97, 45, 115, 104, 97, 50, 45, 110, 105, 115, 116, 112, 50, 53, 54, 45, 99, 101, 114, 116, 45, 118, 48, 49, 64, 111, 112, 101, 110, 115, 115, 104, 46, 99, 111, 109>> @@
    "xxxx" :> <<120, 120, 120, 120>> @@
    "SSH-RSA" :> <<83, 83, 72, 45, 82, 83, 65>> @@
    "ssh-rs" :> <<115, 115, 104, 45, 114, 115>> @@
    "test@host" :> <<116, 101, 115, 116, 64, 104, 111, 115, 116>> @@
    "nistp256" :> <<110, 105, 115, 116, 112, 50, 53, 54>> @@
    "ssh:" :> <<115, 115, 104, 58>>

Texts == DOMAIN UTF8

encode_utf8(s) == UTF8[s]

\* bytes.decode(): the text whose encoding the bytes are.  Every byte string a
\* STRING field holds in this model is the encoding of one of Texts; any other
\* is reported as undecodable.
decode_utf8(b) ==
    IF \E s \in Texts : UTF8[s] = b
    THEN [ok |-> TRUE, val |-> CHOOSE s \in Texts : UTF8[s] = b]
    ELSE [ok |-> FALSE, exc |-> "UnicodeDecodeError"]

----------------------------------------------------------------------------
(* Pascal-style byte stream: the wire codec *)

\* the low width bytes of the two's-complement big-endian representation of n
RECURSIVE BE(_, _)
BE(n, width) ==
    IF width = 0 THEN <<>> ELSE BE(n \div 256, width - 1) \o <<n % 256>>

\* the unsigned integer a big-endian byte string represents
RECURSIVE FromBE(_)
FromBE(b) ==
    IF Len(b) = 0 THEN 0
    ELSE FromBE(SubSeq(b, 1, Len(b) - 1)) * 256 + b[Len(b)]

\* the signed (two's-complement) integer a big-endian byte string represents;
\* the empty string is 0
RECURSIVE FromSignedBE(_)
FromSignedBE(b) ==
    IF Len(b) = 0 THEN 0
    ELSE IF Len(b) = 1 THEN (IF b[1] >= 128 THEN b[1] - 256 ELSE b[1])
    ELSE FromSignedBE(SubSeq(b, 1, Len(b) - 1)) * 256 + b[Len(b)]

\* the number of bytes of the minimal two's-complement form of x
RECURSIVE mpint_length(_)
mpint_length(x) ==
    IF x = 0 THEN 0
    ELSE IF -128 <= x /\ x < 128 THEN 1
    ELSE 1 + (IF x \div 256 = 0 THEN 1 ELSE mpint_length(x \div 256))

\* mpint_bytes with one byte more than the minimal form has
mpint_bytes_padded(x) == BE(x, mpint_length(x) + 1)

\* the minimal two's-complement big-endian bytes of x
mpint_bytes(x) == BE(x, mpint_length(x))

STRING_LENGTH_SIZE == 4

\* a length-prefixed byte string
write_pascal_bytes(b) == BE(Len(b), STRING_LENGTH_SIZE) \o b

\* the width in bytes of a fixed-width unsigned instruction, 0 for the others
FixedWidth(instruction) ==
    CASE instruction = "U8" -> 1
      [] instruction = "U32" -> 4
      [] instruction = "U64" -> 8
      [] OTHER -> 0

\* the Python type a value of the instruction has
InstructionType(instruction) ==
    CASE instruction = "STRING" -> "str"
      [] instruction = "BYTES" -> "bytes"
      [] OTHER -> "int"

\* write one value as the instruction says
write_from_format_instruction(instruction, value) ==
    IF value.t # InstructionType(instruction)
    THEN [ok |-> FALSE, exc |-> "TypeError"]
    ELSE CASE instruction = "STRING" ->
                [ok |-> TRUE, bytes |-> write_pascal_bytes(encode_utf8(value.v))]
           [] instruction = "BYTES" ->
                [ok |-> TRUE, bytes |-> write_pascal_bytes(value.v)]
           [] instruction = "MPINT" ->
                [ok |-> TRUE, bytes |-> write_pascal_bytes(mpint_bytes(value.v))]
           [] OTHER ->
                IF value.v < 0 \/ BE(value.v, FixedWidth(instruction) + 1)[1] # 0
                THEN [ok |-> FALSE, exc |-> "struct.error"]
                ELSE [ok |-> TRUE, bytes |-> BE(value.v, FixedWidth(instruction))]

\* the fields i.. of the format instructions dict, each taken from values by
\* its name and written in declaration order
RECURSIVE write_fields(_, _, _)
write_fields(format_instructions_dict, values, i) ==
    IF i > Len(format_instructions_dict) THEN [ok |-> TRUE, bytes |-> <<>>]
    ELSE LET name == format_instructions_dict[i][1]
             instruction == format_instructions_dict[i][2]
         IN  IF name \notin DOMAIN values THEN [ok |-> FALSE, exc |-> "KeyError"]
             ELSE LET w == write_from_format_instruction(instruction, values[name])
                      rest == write_fields(format_instructions_dict, values, i + 1)
                  IN  IF ~w.ok THEN w
                      ELSE IF ~rest.ok THEN rest
                      ELSE [ok |-> TRUE, bytes |-> w.bytes \o rest.bytes]

write_from_format_instructions_dict(format_instructions_dict, values) ==
    write_fields(format_instructions_dict, values, 1)

\* consume exactly n bytes at the cursor; a short read consumes what is left
read_fixed_bytes(buf, pos, n) ==
    IF n > Len(buf) - pos
    THEN [ok |-> FALSE, exc |-> "EOFError", pos |-> Len(buf)]
    ELSE [ok |-> TRUE, val |-> SubSeq(buf, pos + 1, pos + n), pos |-> pos + n]

\* a length prefix, then that many bytes; a prefix whose top bit is set
\* announces more bytes than any buffer holds
read_pascal_bytes(buf, pos) ==
    LET l == read_fixed_bytes(buf, pos, STRING_LENGTH_SIZE)
    IN  IF ~l.ok THEN l
        ELSE IF l.val[1] >= 128
        THEN [ok |-> FALSE, exc |-> "EOFError", pos |-> Len(buf)]
        ELSE read_fixed_bytes(buf, l.pos, FromBE(l.val))

\* read one value as the instruction says
read_from_format_instruction(instruction, buf, pos) ==
    IF FixedWidth(instruction) > 0
    THEN LET r == read_fixed_bytes(buf, pos, FixedWidth(instruction))
         IN  IF ~r.ok THEN r
             ELSE [ok |-> TRUE, val |-> PyInt(FromBE(r.val)), pos |-> r.pos]
    ELSE LET r == read_pascal_bytes(buf, pos)
         IN  IF ~r.ok THEN r
             ELSE CASE instruction = "BYTES" ->
                         [ok |-> TRUE, val |-> PyBytes(r.val), pos |-> r.pos]
                    [] instruction = "MPINT" ->
                         [ok |-> TRUE, val |-> PyInt(FromSignedBE(r.val)), pos |-> r.pos]
                    [] OTHER ->
                         LET d == decode_utf8(r.val)
                         IN  IF d.ok
                             THEN [ok |-> TRUE, val |-> PyStr(d.val), pos |-> r.pos]
                             ELSE [ok |-> FALSE, exc |-> d.exc, pos |-> r.pos]

\* the fields i.. of the format instructions dict, read in declaration order
\* into the dict acc
RECURSIVE read_fields(_, _, _, _, _)
read_fields(format_instructions_dict, buf, pos, i, acc) ==
    IF i > Len(format_instructions_dict)
    THEN [ok |-> TRUE, val |-> acc, pos |-> pos]
    ELSE LET r == read_from_format_instruction(format_instructions_dict[i][2], buf, pos)
         IN  IF ~r.ok THEN r
             ELSE read_fields(format_instructions_dict, buf, r.pos, i + 1,
                              Update(acc, Item(format_instructions_dict[i][1], r.val)))

read_from_format_instructions_dict(format_instructions_dict, buf, pos) ==
    read_fields(format_instructions_dict, buf, pos, 1, EmptyDict)

\* the warnings of the fields i.. : a field that is missing, or whose value
\* has not the type of its instruction
RECURSIVE check_fields(_, _, _)
check_fields(target_dict, format_instructions_dict, i) ==
    IF i > Len(format_instructions_dict) THEN <<>>
    ELSE LET name == format_instructions_dict[i][1]
             instruction == format_instructions_dict[i][2]
             here == IF name \notin DOMAIN target_dict
                     THEN <<name \o " missing">>
                     ELSE IF target_dict[name].t # InstructionType(instruction)
                     THEN <<name \o " should be of class " \o InstructionType(instruction)>>
                     ELSE <<>>
         IN  here \o check_fields(target_dict, format_instructions_dict, i + 1)

check_dict_matches_format_instructions_dict(target_dict, format_instructions_dict) ==
    check_fields(target_dict, format_instructions_dict, 1)

----------------------------------------------------------------------------
(* Key parameter variants and their format instructions *)

RSAPublicKeyParams_public_format_instructions_dict ==
    << <<"e", "MPINT">>, <<"n", "MPINT">> >>

RSAPrivateKeyParams_private_format_instructions_dict ==
    << <<"n", "MPINT">>, <<"e", "MPINT">>, <<"d", "MPINT">>,
       <<"iqmp", "MPINT">>, <<"p", "MPINT">>, <<"q", "MPINT">> >>

Ed25519PublicKeyParams_public_format_instructions_dict ==
    << <<"public", "BYTES">> >>

Ed25519PrivateKeyParams_private_format_instructions_dict ==
    << <<"public", "BYTES">>, <<"private_public", "BYTES">> >>

DSSPublicKeyParams_FORMAT_INSTRUCTIONS_DICT ==
    << <<"p", "MPINT">>, <<"q", "MPINT">>, <<"g", "MPINT">>, <<"y", "MPINT">> >>

DSSPrivateKeyParams_FORMAT_INSTRUCTIONS_DICT ==
    << <<"p", "MPINT">>, <<"q", "MPINT">>, <<"g", "MPINT">>, <<"y", "MPINT">>,
       <<"x", "MPINT">> >>

ECDSAPublicKeyParams_FORMAT_INSTRUCTIONS_DICT ==
    << <<"identifier", "STRING">>, <<"q", "BYTES">> >>

ECDSAPrivateKeyParams_FORMAT_INSTRUCTIONS_DICT ==
    ECDSAPublicKeyParams_FORMAT_INSTRUCTIONS_DICT \o << <<"d", "MPINT">> >>

SecurityKeyPublic_FORMAT_INSTRUCTIONS_DICT == << <<"application", "STRING">> >>

SecurityKeyPrivate_FORMAT_INSTRUCTIONS_DICT ==
    << <<"flags", "U8">>, <<"key_handle", "BYTES">>, <<"reserved", "BYTES">> >>

CertHeader_FORMAT_INSTRUCTIONS_DICT == << <<"nonce", "BYTES">> >>

CertFooter_FORMAT_INSTRUCTIONS_DICT ==
    << <<"serial", "U64">>, <<"type", "U32">>, <<"key_id", "STRING">>,
       <<"valid_principals", "STRING">>, <<"valid_after", "U64">>,
       <<"valid_before", "U64">>, <<"critical_options", "STRING">>,
       <<"extensions", "STRING">>, <<"reserved", "STRING">>,
       <<"signature_key", "STRING">>, <<"signature", "STRING">> >>

\* the variants (algorithms)
BaseVariants ==
    {"RSA", "Ed25519", "DSS", "ECDSA_NISTP256", "ECDSA_NISTP384",
     "ECDSA_NISTP521", "SecurityKey_ECDSA_NISTP256", "SecurityKey_Ed25519"}

CertVariants == {"Cert_" \o v : v \in BaseVariants}

\* the classes: <variant><Public|Private>KeyParams, written with an
\* underscore when the variant's name has one
ClassName(variant, kind) ==
    IF variant \in {"RSA", "Ed25519", "DSS"}
    THEN variant \o kind \o "KeyParams"
    ELSE variant \o "_" \o kind \o "KeyParams"

PublicClasses == {ClassName(v, "Public") : v \in BaseVariants \cup CertVariants}

PrivateClasses == {ClassName(v, "Private") : v \in BaseVariants}

Classes == PublicClasses \cup PrivateClasses

\* issubclass(cls, PrivateKeyParams)
IsPrivateClass(cls) == cls \in PrivateClasses

\* the variant a class belongs to
VariantOf(cls) ==
    CHOOSE v \in BaseVariants \cup CertVariants :
        cls \in {ClassName(v, "Public"), ClassName(v, "Private")}

\* the public format instructions of the base variants
BasePublicFormat(variant) ==
    CASE variant = "RSA" -> RSAPublicKeyParams_public_format_instructions_dict
      [] variant = "Ed25519" -> Ed25519PublicKeyParams_public_format_instructions_dict
      [] variant = "DSS" -> DSSPublicKeyParams_FORMAT_INSTRUCTIONS_DICT
      [] variant \in {"ECDSA_NISTP256", "ECDSA_NISTP384", "ECDSA_NISTP521"} ->
            ECDSAPublicKeyParams_FORMAT_INSTRUCTIONS_DICT
      [] variant = "SecurityKey_Ed25519" ->
            Ed25519PublicKeyParams_public_format_instructions_dict
                \o SecurityKeyPublic_FORMAT_INSTRUCTIONS_DICT
      [] variant = "SecurityKey_ECDSA_NISTP256" ->
            ECDSAPublicKeyParams_FORMAT_INSTRUCTIONS_DICT
                \o SecurityKeyPublic_FORMAT_INSTRUCTIONS_DICT

\* the base variant a certificate variant certifies: the name after "Cert_"
CertifiedVariant(variant) == CHOOSE v \in BaseVariants : "Cert_" \o v = variant

\* cls.public_format_instructions_dict(): a private class inherits it from
\* the public class of its variant
public_format_instructions_dict(cls) ==
    LET variant == VariantOf(cls)
    IN  IF variant \in CertVariants
        THEN CertHeader_FORMAT_INSTRUCTIONS_DICT
                 \o BasePublicFormat(CertifiedVariant(variant))
                 \o CertFooter_FORMAT_INSTRUCTIONS_DICT
        ELSE BasePublicFormat(variant)

\* cls.private_format_instructions_dict(), of the private classes
private_format_instructions_dict(cls) ==
    LET variant == VariantOf(cls)
    IN  CASE variant = "RSA" -> RSAPrivateKeyParams_private_format_instructions_dict
          [] variant = "Ed25519" -> Ed25519PrivateKeyParams_private_format_instructions_dict
          [] variant = "DSS" -> DSSPrivateKeyParams_FORMAT_INSTRUCTIONS_DICT
          [] variant \in {"ECDSA_NISTP256", "ECDSA_NISTP384", "ECDSA_NISTP521"} ->
                ECDSAPrivateKeyParams_FORMAT_INSTRUCTIONS_DICT
          [] OTHER ->
                BasePublicFormat(variant) \o SecurityKeyPrivate_FORMAT_INSTRUCTIONS_DICT

\* the names of a format instructions dict
Names(format_instructions_dict) ==
    {format_instructions_dict[i][1] : i \in 1..Len(format_instructions_dict)}

\* the format a class checks its parameters against
FormatOf(cls) ==
    IF IsPrivateClass(cls) THEN private_format_instructions_dict(cls)
    ELSE public_format_instructions_dict(cls)

----------------------------------------------------------------------------
(* The factory: key type names to classes *)

PublicPrivateKeyParamsClasses(publicClass, privateClass) ==
    [publicKeyParamsClass |-> publicClass, privateKeyParamsClass |-> privateClass]

_KEY_TYPE_MAPPING ==
    "ssh-rsa" :> PublicPrivateKeyParamsClasses("RSAPublicKeyParams", "RSAPrivateKeyParams") @@
    "ssh-ed25519" :> PublicPrivateKeyParamsClasses("Ed25519PublicKeyParams", "Ed25519PrivateKeyParams")

\* the key type name of the other variants the factory registers
KeyTypeName(variant) ==
    CASE variant = "DSS" -> "ssh-dss"
      [] variant = "ECDSA_NISTP256" -> "ssh-ecdsa-nistp256"
      [] variant = "ECDSA_NISTP384" -> "ssh-ecdsa-nistp384"
      [] variant = "ECDSA_NISTP521" -> "ssh-ecdsa-nistp521"
      [] variant = "SecurityKey_ECDSA_NISTP256" -> "sk-ecdsa-sha2-nistp256@openssh.com"
      [] variant = "SecurityKey_Ed25519" -> "sk-ssh-ed25519@openssh.com"
      [] variant = "Cert_RSA" -> "ssh-rsa-cert-v01@openssh.com"
      [] variant = "Cert_Ed25519" -> "ssh-ed25519-cert-v01@openssh.com"
      [] variant = "Cert_DSS" -> "ssh-dss-cert-v01@openssh.com"
      [] variant = "Cert_ECDSA_NISTP256" -> "ecdsa-sha2-nistp256-cert-v01@openssh.com"
      [] variant = "Cert_ECDSA_NISTP384" -> "ecdsa-sha2-nistp384-cert-v01@openssh.com"
      [] variant = "Cert_ECDSA_NISTP521" -> "ecdsa-sha2-nistp521-cert-v01@openssh.com"
      [] variant = "Cert_SecurityKey_Ed25519" -> "sk-ssh-ed25519-cert-v01@openssh.com"
      [] variant = "Cert_SecurityKey_ECDSA_NISTP256" ->
            "sk-ecdsa-sha2-nistp256-cert-v01@openssh.com"

\* the variants the factory registers besides RSA and Ed25519; a certificate
\* variant has no private class
RegisteredVariants == (BaseVariants \ {"RSA", "Ed25519"}) \cup CertVariants

\* the registry: the entries of _KEY_TYPE_MAPPING and one entry per other
\* registered variant
KEY_TYPE_MAPPING ==
    [key_type \in DOMAIN _KEY_TYPE_MAPPING
                    \cup {KeyTypeName(v) : v \in RegisteredVariants} |->
        IF key_type \in DOMAIN _KEY_TYPE_MAPPING THEN _KEY_TYPE_MAPPING[key_type]
        ELSE LET variant == CHOOSE v \in RegisteredVariants : KeyTypeName(v) = key_type
             IN  PublicPrivateKeyParamsClasses(
                     ClassName(variant, "Public"),
                     IF variant \in CertVariants THEN "None"
                     ELSE ClassName(variant, "Private"))]

NoPrivateForKeyType ==
    "No subclass of PrivateKeyParams corresponds to the given key type name"

\* str.lower() of the texts of the model
Lower(text) == IF text = "SSH-RSA" THEN "ssh-rsa" ELSE text

\* create_public_key_params looking up key_type.lower()
create_public_key_params_lower(key_type) ==
    IF key_type.t = "str" /\ Lower(key_type.v) \in DOMAIN KEY_TYPE_MAPPING
    THEN [ok |-> TRUE, cls |-> KEY_TYPE_MAPPING[Lower(key_type.v)].publicKeyParamsClass]
    ELSE [ok |-> FALSE, exc |-> "KeyError", msg |-> key_type.v]

\* create_public_key_params returning the entry's private class when it has one
create_public_key_params_other(key_type) ==
    IF key_type.t = "str" /\ key_type.v \in DOMAIN KEY_TYPE_MAPPING
    THEN [ok |-> TRUE,
          cls |-> IF KEY_TYPE_MAPPING[key_type.v].privateKeyParamsClass = "None"
                  THEN KEY_TYPE_MAPPING[key_type.v].publicKeyParamsClass
                  ELSE KEY_TYPE_MAPPING[key_type.v].privateKeyParamsClass]
    ELSE [ok |-> FALSE, exc |-> "KeyError", msg |-> key_type.v]

\* _KEY_TYPE_MAPPING[key_type].publicKeyParamsClass of a Python value key_type:
\* the lookup is dict indexing, so a key that is not exactly a registered str
\* raises KeyError(key_type)
create_public_key_params(key_type) ==
    IF key_type.t = "str" /\ key_type.v \in DOMAIN KEY_TYPE_MAPPING
    THEN [ok |-> TRUE, cls |-> KEY_TYPE_MAPPING[key_type.v].publicKeyParamsClass]
    ELSE [ok |-> FALSE, exc |-> "KeyError", msg |-> key_type.v]

\* an entry's private class, or the error of an entry that has none
private_class_of_entry(entry) ==
    IF entry.privateKeyParamsClass = "None"
    THEN [ok |-> FALSE, exc |-> "KeyError", msg |-> NoPrivateForKeyType]
    ELSE [ok |-> TRUE, cls |-> entry.privateKeyParamsClass]

\* create_private_key_params giving a certificate's key type the private
\* class of the algorithm it certifies
create_private_key_params_certified(key_type) ==
    IF key_type.t = "str" /\ key_type.v \in DOMAIN KEY_TYPE_MAPPING
    THEN [ok |-> TRUE,
          cls |-> IF KEY_TYPE_MAPPING[key_type.v].privateKeyParamsClass = "None"
                  THEN ClassName(CertifiedVariant(VariantOf(
                           KEY_TYPE_MAPPING[key_type.v].publicKeyParamsClass)), "Private")
                  ELSE KEY_TYPE_MAPPING[key_type.v].privateKeyParamsClass]
    ELSE [ok |-> FALSE, exc |-> "KeyError", msg |-> key_type.v]

\* _KEY_TYPE_MAPPING[key_type].privateKeyParamsClass
create_private_key_params(key_type) ==
    IF key_type.t = "str" /\ key_type.v \in DOMAIN KEY_TYPE_MAPPING
    THEN private_class_of_entry(KEY_TYPE_MAPPING[key_type.v])
    ELSE [ok |-> FALSE, exc |-> "KeyError", msg |-> key_type.v]

\* a lookup that leaves a key type it does not find registered, with the
\* classes of ssh-rsa
registry_getitem_setdefault(mapping, key_type) ==
    IF key_type.t = "str" /\ key_type.v \in DOMAIN mapping
    THEN [ok |-> TRUE, entry |-> mapping[key_type.v], mapping |-> mapping]
    ELSE [ok |-> FALSE, exc |-> "KeyError", msg |-> key_type.v,
          mapping |-> IF key_type.t = "str"
                      THEN Update(mapping, Item(key_type.v, _KEY_TYPE_MAPPING["ssh-rsa"]))
                      ELSE mapping]

\* _KEY_TYPE_MAPPING[key_type], the dict being mapping when the lookup runs:
\* the entry or KeyError, and the dict as the lookup leaves it
registry_getitem(mapping, key_type) ==
    IF key_type.t = "str" /\ key_type.v \in DOMAIN mapping
    THEN [ok |-> TRUE, entry |-> mapping[key_type.v], mapping |-> mapping]
    ELSE [ok |-> FALSE, exc |-> "KeyError", msg |-> key_type.v, mapping |-> mapping]

\* the class a factory function returns, the lookup having returned lookup:
\* create_public_key_params takes the public class of the entry,
\* create_private_key_params the private one
class_of_lookup(private, lookup) ==
    IF ~lookup.ok THEN [ok |-> FALSE, exc |-> lookup.exc, msg |-> lookup.msg]
    ELSE IF private THEN private_class_of_entry(lookup.entry)
    ELSE [ok |-> TRUE, cls |-> lookup.entry.publicKeyParamsClass]

----------------------------------------------------------------------------
(* Parameter objects: [cls |-> class, data |-> dict] *)

Ed25519_KEY_SIZE == 32

\* a raised exception, with the warnings emitted before it
Raise(exc, warnings) == [ok |-> FALSE, exc |-> exc, warnings |-> warnings]

\* a normal return of a check, with the warnings it emitted
Warned(warnings) == [ok |-> TRUE, warnings |-> warnings]

\* PublicKeyParams.check_params_are_valid
PublicKeyParams_check_params_are_valid(cls, data) ==
    Warned(check_dict_matches_format_instructions_dict(
               data, public_format_instructions_dict(cls)))

\* PrivateKeyParams.check_params_are_valid
PrivateKeyParams_check_params_are_valid(cls, data) ==
    Warned(check_dict_matches_format_instructions_dict(
               data, private_format_instructions_dict(cls)))

\* Ed25519PublicKeyParams_check_length warning of the longer keys only
Ed25519PublicKeyParams_check_length_longer(data, base) ==
    IF "public" \notin DOMAIN data THEN base
    ELSE IF data["public"].t = "int" THEN Raise("TypeError", base.warnings)
    ELSE IF Len(data["public"].v) > Ed25519_KEY_SIZE
    THEN Warned(base.warnings
                \o <<"Public key not of length " \o ToString(Ed25519_KEY_SIZE)>>)
    ELSE base

\* the length check of Ed25519PublicKeyParams.check_params_are_valid, after
\* the check super() made returned base: len() of an int raises
Ed25519PublicKeyParams_check_length(data, base) ==
    IF "public" \notin DOMAIN data THEN base
    ELSE IF data["public"].t = "int" THEN Raise("TypeError", base.warnings)
    ELSE IF Len(data["public"].v) # Ed25519_KEY_SIZE
    THEN Warned(base.warnings
                \o <<"Public key not of length " \o ToString(Ed25519_KEY_SIZE)>>)
    ELSE base

\* Ed25519PublicKeyParams.check_params_are_valid
Ed25519PublicKeyParams_check_params_are_valid(cls, data) ==
    Ed25519PublicKeyParams_check_length(
        data, PublicKeyParams_check_params_are_valid(cls, data))

\* value[n:] of a bytes or a str
SliceFrom(value, n) == [t |-> value.t, v |-> SubSeq(value.v, n + 1, Len(value.v))]

\* Ed25519PrivateKeyParams_check_tail taking the length of the tail for the
\* length of the whole of private_public
Ed25519PrivateKeyParams_check_tail_whole(tail, public) ==
    (IF tail # public THEN <<"Public key does not match">> ELSE <<>>)
    \o (IF Len(tail.v) # 2 * Ed25519_KEY_SIZE
        THEN <<"Private key not of length " \o ToString(Ed25519_KEY_SIZE)>>
        ELSE <<>>)

\* the warnings of the last two checks of
\* Ed25519PrivateKeyParams.check_params_are_valid, tail being
\* data['private_public'][KEY_SIZE:]
Ed25519PrivateKeyParams_check_tail(tail, public) ==
    (IF tail # public THEN <<"Public key does not match">> ELSE <<>>)
    \o (IF Len(tail.v) # Ed25519_KEY_SIZE
        THEN <<"Private key not of length " \o ToString(Ed25519_KEY_SIZE)>>
        ELSE <<>>)

\* Ed25519PrivateKeyParams.check_params_are_valid after its two calls
\* returned pub and priv: slicing an int raises, and so does data['public']
\* of a dict without that key
Ed25519PrivateKeyParams_check_private_public(data, pub, priv) ==
    IF ~pub.ok THEN pub
    ELSE IF "private_public" \notin DOMAIN data
    THEN Warned(pub.warnings \o priv.warnings)
    ELSE IF data["private_public"].t = "int"
    THEN Raise("TypeError", pub.warnings \o priv.warnings)
    ELSE IF "public" \notin DOMAIN data
    THEN Raise("KeyError", pub.warnings \o priv.warnings)
    ELSE Warned(pub.warnings \o priv.warnings
                \o Ed25519PrivateKeyParams_check_tail(
                       SliceFrom(data["private_public"], Ed25519_KEY_SIZE),
                       data["public"]))

\* Ed25519PrivateKeyParams.check_params_are_valid
Ed25519PrivateKeyParams_check_params_are_valid(cls, data) ==
    Ed25519PrivateKeyParams_check_private_public(
        data,
        Ed25519PublicKeyParams_check_params_are_valid(cls, data),
        PrivateKeyParams_check_params_are_valid(cls, data))

\* self.check_params_are_valid(), by the class of self
check_params_are_valid(cls, data) ==
    CASE cls = "Ed25519PublicKeyParams" ->
            Ed25519PublicKeyParams_check_params_are_valid(cls, data)
      [] cls = "Ed25519PrivateKeyParams" ->
            Ed25519PrivateKeyParams_check_params_are_valid(cls, data)
      [] cls \in PrivateClasses \ {"Ed25519PrivateKeyParams"} ->
            PrivateKeyParams_check_params_are_valid(cls, data)
      [] OTHER -> PublicKeyParams_check_params_are_valid(cls, data)

\* the object cls(params) is once its check returned checked
PublicKeyParams_checked(cls, params, checked) ==
    IF checked.ok
    THEN [ok |-> TRUE, obj |-> [cls |-> cls, data |-> params],
          warnings |-> checked.warnings]
    ELSE checked

\* cls(params): the object keeps every item of params, then is checked
PublicKeyParams_init(cls, params) ==
    PublicKeyParams_checked(cls, params, check_params_are_valid(cls, params))

\* an equality that also compares the classes
PublicKeyParams_eq_same_class(a, b) == a.cls = b.cls /\ a.data = b.data

\* a == b of two mappings (parameter objects or plain dicts, cls "dict"):
\* the equality a parameter object inherits from collections.UserDict
PublicKeyParams_eq(a, b) == a.data = b.data

----------------------------------------------------------------------------
(* The key envelope: [cls |-> "PublicKey" or "PrivateKey", header |-> dict, *)
(* params |-> parameter object, footer |-> dict, attrs |-> the attributes   *)
(* from_bytes sets on it]                                                   *)

header_format_instructions_dict(cls) == << <<"key_type", "STRING">> >>

footer_format_instructions_dict(cls) ==
    IF cls = "PrivateKey" THEN << <<"comment", "STRING">> >> ELSE <<>>

\* the class the envelope class takes from the factory for a key type
create_key_params_class(cls, key_type) ==
    IF cls = "PrivateKey" THEN create_private_key_params(key_type)
    ELSE create_public_key_params(key_type)

\* read_key_params_dict reading the public format whatever the class
read_key_params_dict_public(cls, c, buf, pos) ==
    IF ~c.ok THEN [ok |-> FALSE, exc |-> c.exc, msg |-> c.msg, pos |-> pos]
    ELSE read_from_format_instructions_dict(
             public_format_instructions_dict(c.cls), buf, pos)

\* the read of the body, the factory having returned c
read_key_params_dict(cls, c, buf, pos) ==
    IF ~c.ok THEN [ok |-> FALSE, exc |-> c.exc, msg |-> c.msg, pos |-> pos]
    ELSE read_from_format_instructions_dict(
             IF cls = "PrivateKey" THEN private_format_instructions_dict(c.cls)
             ELSE public_format_instructions_dict(c.cls),
             buf, pos)

\* cls.create_key_params_dict(key_type, byte_stream): the factory lookup
\* comes first, the read of the body after it
create_key_params_dict(cls, key_type, buf, pos) ==
    read_key_params_dict(cls, create_key_params_class(cls, key_type), buf, pos)

\* the construction of the parameter object, the factory having returned c
construct_key_params(c, key_params_dict) ==
    IF ~c.ok THEN [ok |-> FALSE, exc |-> c.exc, msg |-> c.msg, warnings |-> <<>>]
    ELSE PublicKeyParams_init(c.cls, key_params_dict)

\* cls.create_key_params(key_type, key_params_dict)
create_key_params(cls, key_type, key_params_dict) ==
    construct_key_params(create_key_params_class(cls, key_type), key_params_dict)

\* the envelope cls(header, params, footer) is, create_key_params having
\* returned p: the header was checked before it, the footer is after it
PublicKey_init_params(cls, header, p, footer) ==
    IF ~p.ok
    THEN [p EXCEPT !.warnings =
              check_dict_matches_format_instructions_dict(
                  header, header_format_instructions_dict(cls)) \o p.warnings]
    ELSE [ok |-> TRUE,
          key |-> [cls |-> cls, header |-> header, params |-> p.obj,
                   footer |-> footer, attrs |-> EmptyDict],
          warnings |->
              check_dict_matches_format_instructions_dict(
                  header, header_format_instructions_dict(cls))
              \o p.warnings
              \o check_dict_matches_format_instructions_dict(
                     footer, footer_format_instructions_dict(cls))]

\* cls(header, params, footer)
PublicKey_init(cls, header, params, footer) ==
    IF "key_type" \notin DOMAIN header
    THEN [ok |-> FALSE, exc |-> "KeyError", msg |-> "key_type",
          warnings |-> check_dict_matches_format_instructions_dict(
                           header, header_format_instructions_dict(cls))]
    ELSE PublicKey_init_params(
             cls, header, create_key_params(cls, header["key_type"], params), footer)

\* a failed read, as the result of the decode: no warning was emitted
Failed(r) == r @@ [warnings |-> <<>>]

\* from_byte_stream_footer reporting the cursor where the body ended
from_byte_stream_footer_rewound(cls, header, params, footer) ==
    IF ~footer.ok THEN Failed(footer)
    ELSE PublicKey_init(cls, header.val, params.val, footer.val)
             @@ [pos |-> params.pos]

\* from_byte_stream_footer constructing the envelope without a footer when
\* the read of the footer failed
from_byte_stream_footer_lenient(cls, header, params, footer) ==
    IF ~footer.ok
    THEN PublicKey_init(cls, header.val, params.val, EmptyDict)
             @@ [pos |-> footer.pos]
    ELSE PublicKey_init(cls, header.val, params.val, footer.val)
             @@ [pos |-> footer.pos]

\* from_byte_stream once the footer was read: the envelope is constructed and
\* the cursor is where the footer ended
from_byte_stream_footer(cls, header, params, footer) ==
    IF ~footer.ok THEN Failed(footer)
    ELSE PublicKey_init(cls, header.val, params.val, footer.val)
             @@ [pos |-> footer.pos]

\* from_byte_stream once the body was read: the footer is read
from_byte_stream_params(cls, buf, header, params) ==
    IF ~params.ok THEN Failed(params)
    ELSE from_byte_stream_footer(
             cls, header, params,
             read_from_format_instructions_dict(
                 footer_format_instructions_dict(cls), buf, params.pos))

\* from_byte_stream once the header was read: the body the key type selects
\* is read
from_byte_stream_header(cls, buf, header) ==
    IF ~header.ok THEN Failed(header)
    ELSE from_byte_stream_params(
             cls, buf, header,
             create_key_params_dict(cls, header.val["key_type"], buf, header.pos))

\* cls.from_byte_stream(byte_stream), the stream's cursor at pos: header,
\* then the body the key type selects, then the footer
from_byte_stream(cls, buf, pos) ==
    from_byte_stream_header(
        cls, buf,
        read_from_format_instructions_dict(
            header_format_instructions_dict(cls), buf, pos))

\* from_bytes_remainder attaching what the stream still holds even when that
\* is nothing
from_bytes_remainder_always(byte_string, r) ==
    IF ~r.ok THEN r
    ELSE [ok |-> TRUE, pos |-> Len(byte_string),
          key |-> [r.key EXCEPT !.attrs =
                      Update(Item("bytes", PyBytes(byte_string)),
                             Item("remainder",
                                  PyBytes(SubSeq(byte_string, r.pos + 1,
                                                 Len(byte_string)))))],
          warnings |-> IF Len(byte_string) - r.pos > 0
                       THEN r.warnings \o <<"Excess bytes in key">>
                       ELSE r.warnings]

\* from_bytes once from_byte_stream returned r: the bytes are kept on the
\* key, and so is what the stream still holds, if anything
from_bytes_remainder(byte_string, r) ==
    IF ~r.ok THEN r
    ELSE IF Len(byte_string) - r.pos > 0
    THEN [ok |-> TRUE, pos |-> Len(byte_string),
          key |-> [r.key EXCEPT !.attrs =
                      Update(Item("bytes", PyBytes(byte_string)),
                             Item("remainder",
                                  PyBytes(SubSeq(byte_string, r.pos + 1,
                                                 Len(byte_string)))))],
          warnings |-> r.warnings \o <<"Excess bytes in key">>]
    ELSE [ok |-> TRUE, pos |-> Len(byte_string),
          key |-> [r.key EXCEPT !.attrs = Item("bytes", PyBytes(byte_string))],
          warnings |-> r.warnings]

\* cls.from_bytes(byte_string)
from_bytes(cls, byte_string) ==
    from_bytes_remainder(byte_string, from_byte_stream(cls, byte_string, 0))

\* what a stream holds after three writes returned h, p and f
getvalue(h, p, f) ==
    IF ~h.ok THEN h
    ELSE IF ~p.ok THEN p
    ELSE IF ~f.ok THEN f
    ELSE [ok |-> TRUE, bytes |-> h.bytes \o p.bytes \o f.bytes]

\* pack_public writing the formats of the class of self: of a PrivateKey, the
\* private format and the comment
pack_public_own_formats(self) ==
    getvalue(
        write_from_format_instructions_dict(
            header_format_instructions_dict(self.cls), self.header),
        write_from_format_instructions_dict(
            IF self.cls = "PrivateKey"
            THEN private_format_instructions_dict(self.params.cls)
            ELSE public_format_instructions_dict(self.params.cls),
            self.params.data),
        write_from_format_instructions_dict(
            footer_format_instructions_dict(self.cls), self.footer))

\* pack_public also writing the field extra of the parameters, when they
\* have it
pack_public_extra(self) ==
    getvalue(
        write_from_format_instructions_dict(
            header_format_instructions_dict("PublicKey"), self.header),
        write_from_format_instructions_dict(
            public_format_instructions_dict(self.params.cls)
                \o (IF "extra" \in DOMAIN self.params.data
                    THEN << <<"extra", IF self.params.data["extra"].t = "int"
                                       THEN "MPINT" ELSE "BYTES">> >>
                    ELSE <<>>),
            self.params.data),
        write_from_format_instructions_dict(
            footer_format_instructions_dict("PublicKey"), self.footer))

\* self.pack_public(): the formats are PublicKey's, whatever the class of self
pack_public(self) ==
    getvalue(
        write_from_format_instructions_dict(
            header_format_instructions_dict("PublicKey"), self.header),
        write_from_format_instructions_dict(
            public_format_instructions_dict(self.params.cls), self.params.data),
        write_from_format_instructions_dict(
            footer_format_instructions_dict("PublicKey"), self.footer))

\* pack_private writing the fields of the public format first, then the
\* others of the private format
pack_private_public_first(self) ==
    getvalue(
        write_from_format_instructions_dict(
            header_format_instructions_dict("PrivateKey"), self.header),
        write_from_format_instructions_dict(
            public_format_instructions_dict(self.params.cls)
                \o SelectSeq(private_format_instructions_dict(self.params.cls),
                             LAMBDA item : item[1] \notin Names(
                                 public_format_instructions_dict(self.params.cls))),
            self.params.data),
        write_from_format_instructions_dict(
            footer_format_instructions_dict("PrivateKey"), self.footer))

\* self.pack_private(), of a PrivateKey
pack_private(self) ==
    getvalue(
        write_from_format_instructions_dict(
            header_format_instructions_dict("PrivateKey"), self.header),
        write_from_format_instructions_dict(
            private_format_instructions_dict(self.params.cls), self.params.data),
        write_from_format_instructions_dict(
            footer_format_instructions_dict("PrivateKey"), self.footer))

\* a pack that takes the fields it wrote out of the parameters
self_after_pack_popped(self) ==
    [self EXCEPT !.params.data =
        [name \in DOMAIN @ \ Names(public_format_instructions_dict(self.params.cls)) |->
            @[name]]]

\* self once pack_public or pack_private returned: both write to a stream of
\* their own and assign nothing to self, its header, its params or its footer
self_after_pack(self) == self

\* self == other
PublicKey_eq(self, other) ==
    /\ self.cls = other.cls
    /\ self.header = other.header
    /\ PublicKeyParams_eq(self.params, other.params)
    /\ self.footer = other.footer

----------------------------------------------------------------------------
(* Conversions between parameter objects and key objects.  A key object of  *)
(* the cryptography library is [t |-> its type, v |-> the dict of its       *)
(* numbers]; a bytes object is a key object too.                            *)

\* issubclass(candidate, destination), of the types of key objects: every
\* type is a subclass of itself and of object, and
\* rsa.RSAPrivateKeyWithSerialization is one of rsa.RSAPrivateKey
IsSubclass(candidate, destination) ==
    \/ candidate = destination
    \/ destination = "object"
    \/ candidate = "RSAPrivateKeyWithSerialization" /\ destination = "RSAPrivateKey"

\* the types there are; the other destinations are no classes
KeyObjectTypes ==
    {"object", "int", "str", "bytes", "RSAPublicKey", "RSAPrivateKey",
     "RSAPrivateKeyWithSerialization", "Ed25519PublicKey", "Ed25519PrivateKey",
     "DSAPublicKey", "DSAPrivateKey"}

\* the public key bytes the library derives from a private key's bytes
PublicFromSeed(seed) == [i \in 1..Len(seed) |-> (3 * seed[i] + 167) % 256]

\* d restricted to names
Project(d, names) == [name \in names |-> d[name]]

\* the key object of type t the library builds from the fields names of a
\* parameters object: reading a field it does not have raises KeyError
KeyObject(t, data, names) ==
    IF names \subseteq DOMAIN data
    THEN [ok |-> TRUE, obj |-> [t |-> t, v |-> Project(data, names)]]
    ELSE [ok |-> FALSE, exc |-> "KeyError"]

\* ed25519.Ed25519PublicKey.from_public_bytes(value) and
\* ed25519.Ed25519PrivateKey.from_private_bytes(value): the library raises
\* ValueError unless there are KEY_SIZE bytes
Ed25519KeyObject(t, name, value) ==
    IF value.t # "bytes" THEN [ok |-> FALSE, exc |-> "TypeError"]
    ELSE IF Len(value.v) # Ed25519_KEY_SIZE THEN [ok |-> FALSE, exc |-> "ValueError"]
    ELSE [ok |-> TRUE, obj |-> [t |-> t, v |-> Item(name, value)]]

\* value[:n] of a bytes or a str
SliceTo(value, n) ==
    [t |-> value.t, v |-> SubSeq(value.v, 1, IF Len(value.v) < n THEN Len(value.v) ELSE n)]

\* the keys of cls.conversion_functions(), in iteration order
conversion_functions(cls) ==
    CASE cls = "RSAPublicKeyParams" -> <<"RSAPublicKey">>
      [] cls = "RSAPrivateKeyParams" -> <<"RSAPrivateKeyWithSerialization">>
      [] cls = "Ed25519PublicKeyParams" -> <<"Ed25519PublicKey", "bytes">>
      [] cls = "Ed25519PrivateKeyParams" -> <<"Ed25519PrivateKey", "bytes">>
      [] cls = "DSSPublicKeyParams" -> <<"DSAPublicKey">>
      [] cls = "DSSPrivateKeyParams" -> <<"DSAPrivateKey">>
      [] OTHER -> <<>>

\* the dict of an Ed25519 private key whose private bytes are seed
Ed25519PrivateMapping(seed) ==
    Update(Item("public", PyBytes(PublicFromSeed(seed.v))),
           Item("private_public", PyBytes(seed.v \o PublicFromSeed(seed.v))))

\* ed25519_private_key_bytes(key_object)
ed25519_private_key_bytes(key_object) ==
    IF Len(key_object.v) # Ed25519_KEY_SIZE THEN [ok |-> FALSE, exc |-> "ValueError"]
    ELSE [ok |-> TRUE, val |-> Ed25519PrivateMapping(key_object)]

\* cls.conversion_functions()[k] applied to key_object, an instance of k:
\* the dict of the numbers of the object
object_to_mapping(cls, k, key_object) ==
    CASE k = "bytes" /\ cls = "Ed25519PublicKeyParams" ->
            [ok |-> TRUE, val |-> Item("public", key_object)]
      [] k = "bytes" /\ cls = "Ed25519PrivateKeyParams" ->
            ed25519_private_key_bytes(key_object)
      [] k = "Ed25519PrivateKey" ->
            [ok |-> TRUE, val |-> Ed25519PrivateMapping(key_object.v["private"])]
      [] OTHER -> [ok |-> TRUE, val |-> key_object.v]

\* cls.__subclasses__(), of the parameter classes with conversion functions
Subclasses(cls) ==
    CASE cls = "RSAPublicKeyParams" -> <<"RSAPrivateKeyParams">>
      [] cls = "Ed25519PublicKeyParams" -> <<"Ed25519PrivateKeyParams">>
      [] cls = "DSSPublicKeyParams" -> <<"DSSPrivateKeyParams">>
      [] OTHER -> <<>>

\* the first i from which on key_object is an instance of types[i], or 0
RECURSIVE FirstInstance(_, _, _)
FirstInstance(types, key_object, i) ==
    IF i > Len(types) THEN 0
    ELSE IF IsSubclass(key_object.t, types[i]) THEN i
    ELSE FirstInstance(types, key_object, i + 1)

\* the end of convert_from constructing cls(params_dict), every item kept
convert_from_construct_whole(cls, params_dict) ==
    IF ~params_dict.ok THEN [ok |-> FALSE, exc |-> params_dict.exc, warnings |-> <<>>]
    ELSE IF ~(Names(FormatOf(cls)) \subseteq DOMAIN params_dict.val)
    THEN [ok |-> FALSE, exc |-> "KeyError", warnings |-> <<>>]
    ELSE PublicKeyParams_init(cls, params_dict.val)

\* the end of convert_from: cls({k: params_dict[k] for k in the format})
convert_from_construct(cls, params_dict) ==
    IF ~params_dict.ok THEN [ok |-> FALSE, exc |-> params_dict.exc, warnings |-> <<>>]
    ELSE IF ~(Names(FormatOf(cls)) \subseteq DOMAIN params_dict.val)
    THEN [ok |-> FALSE, exc |-> "KeyError", warnings |-> <<>>]
    ELSE PublicKeyParams_init(cls, Project(params_dict.val, Names(FormatOf(cls))))

RECURSIVE convert_from(_, _)
RECURSIVE convert_from_subclasses(_, _, _, _)

\* the loop of convert_from over the subclasses once subcls.convert_from
\* returned r: NotImplementedError is passed over, a result ends the loop
convert_from_subclass(cls, subclasses, i, key_object, r) ==
    IF r.ok THEN convert_from_construct(cls, [ok |-> TRUE, val |-> r.obj.data])
    ELSE IF r.exc = "NotImplementedError"
    THEN convert_from_subclasses(cls, subclasses, i + 1, key_object)
    ELSE r

\* the loop of convert_from over cls.__subclasses__(), from the i-th on
convert_from_subclasses(cls, subclasses, i, key_object) ==
    IF i > Len(subclasses)
    THEN [ok |-> FALSE, exc |-> "NotImplementedError", warnings |-> <<>>]
    ELSE convert_from_subclass(cls, subclasses, i, key_object,
                               convert_from(subclasses[i], key_object))

\* the result r of the subclasses when there is one, the own conversion
\* function otherwise
convert_from_own_second(cls, key_object, i, r) ==
    IF r.ok \/ i = 0 THEN r
    ELSE convert_from_construct(
             cls, object_to_mapping(cls, conversion_functions(cls)[i], key_object))

\* convert_from_own asking the subclasses first
convert_from_own_subclasses_first(cls, key_object, i) ==
    convert_from_own_second(
        cls, key_object, i,
        convert_from_subclasses(cls, Subclasses(cls), 1, key_object))

\* convert_from once the loop over the conversion functions found the i-th
\* to be the first of a type of key_object, or none (0)
convert_from_own(cls, key_object, i) ==
    IF i > 0
    THEN convert_from_construct(
             cls, object_to_mapping(cls, conversion_functions(cls)[i], key_object))
    ELSE convert_from_subclasses(cls, Subclasses(cls), 1, key_object)

\* cls.convert_from(key_object)
convert_from(cls, key_object) ==
    convert_from_own(cls, key_object,
                     FirstInstance(conversion_functions(cls), key_object, 1))

\* PublicKeyParams.convert_to without the test of destination_class
PublicKeyParams_convert_to_unchecked(self, destination_class) ==
    [ok |-> FALSE, exc |-> "NotImplementedError"]

\* PublicKeyParams.convert_to of key_params.py, the end of every chain of
\* super().convert_to
PublicKeyParams_convert_to(self, destination_class) ==
    IF destination_class \notin KeyObjectTypes THEN [ok |-> FALSE, exc |-> "ValueError"]
    ELSE [ok |-> FALSE, exc |-> "NotImplementedError"]

\* RSAPublicKeyParams.convert_to
RSAPublicKeyParams_convert_to(self, destination_class) ==
    IF destination_class = "RSAPublicKey"
    THEN KeyObject("RSAPublicKey", self.data, {"e", "n"})
    ELSE PublicKeyParams_convert_to(self, destination_class)

\* RSAPrivateKeyParams.convert_to
RSAPrivateKeyParams_convert_to(self, destination_class) ==
    IF destination_class = "RSAPrivateKey"
    THEN KeyObject("RSAPrivateKeyWithSerialization", self.data,
                   {"n", "e", "d", "iqmp", "p", "q"})
    ELSE RSAPublicKeyParams_convert_to(self, destination_class)

\* Ed25519PublicKeyParams.convert_to
Ed25519PublicKeyParams_convert_to(self, destination_class) ==
    IF destination_class \in {"Ed25519PublicKey", "bytes"}
           /\ "public" \notin DOMAIN self.data
    THEN [ok |-> FALSE, exc |-> "KeyError"]
    ELSE IF destination_class = "Ed25519PublicKey"
    THEN Ed25519KeyObject("Ed25519PublicKey", "public", self.data["public"])
    ELSE IF destination_class = "bytes"
    THEN [ok |-> TRUE, obj |-> self.data["public"]]
    ELSE PublicKeyParams_convert_to(self, destination_class)

\* Ed25519PrivateKeyParams_convert_to giving the whole of private_public for
\* bytes
Ed25519PrivateKeyParams_convert_to_whole(self, destination_class) ==
    IF destination_class \in {"Ed25519PrivateKey", "bytes"}
           /\ "private_public" \notin DOMAIN self.data
    THEN [ok |-> FALSE, exc |-> "KeyError"]
    ELSE IF destination_class = "Ed25519PrivateKey"
    THEN Ed25519KeyObject("Ed25519PrivateKey", "private",
                          SliceTo(self.data["private_public"], Ed25519_KEY_SIZE))
    ELSE IF destination_class = "bytes"
    THEN [ok |-> TRUE, obj |-> self.data["private_public"]]
    ELSE Ed25519PublicKeyParams_convert_to(self, destination_class)

\* Ed25519PrivateKeyParams.convert_to
Ed25519PrivateKeyParams_convert_to(self, destination_class) ==
    IF destination_class \in {"Ed25519PrivateKey", "bytes"}
           /\ "private_public" \notin DOMAIN self.data
    THEN [ok |-> FALSE, exc |-> "KeyError"]
    ELSE IF destination_class = "Ed25519PrivateKey"
    THEN Ed25519KeyObject("Ed25519PrivateKey", "private",
                          SliceTo(self.data["private_public"], Ed25519_KEY_SIZE))
    ELSE IF destination_class = "bytes"
    THEN [ok |-> TRUE, obj |-> SliceTo(self.data["private_public"], Ed25519_KEY_SIZE)]
    ELSE Ed25519PublicKeyParams_convert_to(self, destination_class)

\* cls.__mro__ up to PublicKeyParams, of the classes of key_params/
mro(cls) ==
    IF IsPrivateClass(cls)
    THEN <<cls, "PrivateKeyParams", ClassName(VariantOf(cls), "Public"), "PublicKeyParams">>
    ELSE <<cls, "PublicKeyParams">>

\* supercls.conversion_functions()[candidate_class].mapping_to_object(self)
mapping_to_object(supercls, candidate_class, self) ==
    KeyObject(candidate_class, self.data, Names(FormatOf(supercls)))

RECURSIVE convert_to_mro(_, _, _, _, _)
\* the loops of PublicKeyParams.convert_to of key_params/common.py, at the
\* j-th conversion function of the i-th class of classes
convert_to_mro(self, destination_class, classes, i, j) ==
    IF i > Len(classes) THEN [ok |-> FALSE, exc |-> "NotImplementedError"]
    ELSE IF j > Len(conversion_functions(classes[i]))
    THEN convert_to_mro(self, destination_class, classes, i + 1, 1)
    ELSE IF IsSubclass(conversion_functions(classes[i])[j], destination_class)
    THEN mapping_to_object(classes[i], conversion_functions(classes[i])[j], self)
    ELSE convert_to_mro(self, destination_class, classes, i, j + 1)

\* PublicKeyParams.convert_to of key_params/common.py
common_convert_to(self, destination_class) ==
    IF destination_class \notin KeyObjectTypes THEN [ok |-> FALSE, exc |-> "ValueError"]
    ELSE convert_to_mro(self, destination_class, mro(self.cls), 1, 1)

\* self.convert_to(destination_class): the classes of key_params.py override
\* it, those of key_params/ inherit it
convert_to(self, destination_class) ==
    CASE self.cls = "RSAPublicKeyParams" ->
            RSAPublicKeyParams_convert_to(self, destination_class)
      [] self.cls = "RSAPrivateKeyParams" ->
            RSAPrivateKeyParams_convert_to(self, destination_class)
      [] self.cls = "Ed25519PublicKeyParams" ->
            Ed25519PublicKeyParams_convert_to(self, destination_class)
      [] self.cls = "Ed25519PrivateKeyParams" ->
            Ed25519PrivateKeyParams_convert_to(self, destination_class)
      [] OTHER -> common_convert_to(self, destination_class)

----------------------------------------------------------------------------
(* Generation: RSAPrivateKeyParams.generate_private_params(kwargs).  The    *)
(* crypto library generates the key; the numbers it returns are an input,   *)
(* its public exponent being the one it was called with.                   *)

RSAPrivateKeyParams_PUBLIC_EXPONENT == 65537

RSAPrivateKeyParams_KEY_SIZE == 4096

\* a call that takes an option only when the other is given too
rsa_generate_private_key_call_both(kwargs) ==
    IF "e" \in DOMAIN kwargs /\ "key_size" \in DOMAIN kwargs
    THEN [public_exponent |-> kwargs["e"], key_size |-> kwargs["key_size"]]
    ELSE [public_exponent |-> RSAPrivateKeyParams_PUBLIC_EXPONENT,
          key_size |-> RSAPrivateKeyParams_KEY_SIZE]

\* the arguments of rsa.generate_private_key
rsa_generate_private_key_call(kwargs) ==
    [public_exponent |-> IF "e" \in DOMAIN kwargs THEN kwargs["e"]
                         ELSE RSAPrivateKeyParams_PUBLIC_EXPONENT,
     key_size |-> IF "key_size" \in DOMAIN kwargs THEN kwargs["key_size"]
                  ELSE RSAPrivateKeyParams_KEY_SIZE]

\* cls(...) of the numbers of the generated key
RSAPrivateKeyParams_generate_private_params(kwargs, private_key_numbers) ==
    PublicKeyParams_init(
        "RSAPrivateKeyParams",
        [n |-> PyInt(private_key_numbers.public_numbers.n),
         e |-> PyInt(private_key_numbers.public_numbers.e),
         d |-> PyInt(private_key_numbers.d),
         iqmp |-> PyInt(private_key_numbers.iqmp),
         p |-> PyInt(private_key_numbers.p),
         q |-> PyInt(private_key_numbers.q)])
    @@ [call |-> rsa_generate_private_key_call(kwargs)]

----------------------------------------------------------------------------
(* The inputs of the model *)

MaxSeed == 3
MaxStride == 1
MaxTrailer == 4
MaxDelta == 1

MaxCompareSeed == 1

MaxConvertSeed == 1

\* how many bytes are cut from the end of packed bytes
MaxCut == 2

\* the integers written as MPINT on their own: all up to this magnitude
MaxMpint == 300

\* the seeds of the second key of a stream
MaxSecondSeed == 1

MpintPool == <<0, 1, 127, 128, 255, 256, -1, -128, -129, 65537>>

EdSeed == Rep(1, Ed25519_KEY_SIZE)
EdPublicA == Rep(170, Ed25519_KEY_SIZE)
EdPublicB == Rep(187, Ed25519_KEY_SIZE)

BytesPool == << <<>>, EdPublicA, <<0, 255>>, EdSeed \o EdPublicA, <<170>> >>

StrPool == <<"", "test@host", "nistp256", "ssh:">>

UIntPool == <<0, 1, 255>>

\* the k-th value of the instruction's type, k counted around the pool
ValidValue(instruction, k) ==
    CASE instruction = "MPINT" -> PyInt(MpintPool[(k % Len(MpintPool)) + 1])
      [] instruction = "BYTES" -> PyBytes(BytesPool[(k % Len(BytesPool)) + 1])
      [] instruction = "STRING" -> PyStr(StrPool[(k % Len(StrPool)) + 1])
      [] OTHER -> PyInt(UIntPool[(k % Len(UIntPool)) + 1])

\* a value of another type than the instruction's
WrongValue(instruction, k) ==
    IF InstructionType(instruction) = "int"
    THEN (IF k % 2 = 0 THEN PyBytes(<<1>>) ELSE PyStr("test@host"))
    ELSE IF InstructionType(instruction) = "bytes"
    THEN (IF k % 2 = 0 THEN PyInt(5) ELSE PyStr("test@host"))
    ELSE (IF k % 2 = 0 THEN PyInt(5) ELSE PyBytes(<<1>>))

\* the dict holding exactly the fields of the format, field i with the
\* (seed + (i - 1) * stride)-th value of its type
ValidParams(format, seed, stride) ==
    [name \in Names(format) |->
        LET i == CHOOSE j \in 1..Len(format) : format[j][1] = name
        IN  ValidValue(format[i][2], seed + (i - 1) * stride)]

Seeds == 0..MaxSeed
Strides == 0..MaxStride

\* fields no format declares
ExtraFields ==
    {EmptyDict, Item("extra", PyBytes(<<1>>)),
     Update(Item("extra", PyInt(7)), Item("note", PyStr("test@host")))}

Comments == {"", "test@host"}

Trailers == {Rep(0, n) : n \in 0..MaxTrailer} \cup {<<0, 0, 0, 1, 7>>}

\* the tails of a hand-built buffer, after its header
RawTails ==
    {<<>>, <<0, 0, 0, 5, 1, 2>>, <<0, 0, 0, 1, 7>>, Rep(0, 2 * STRING_LENGTH_SIZE)}

\* the lengths around KEY_SIZE
NearKeySize == (Ed25519_KEY_SIZE - MaxDelta)..(Ed25519_KEY_SIZE + MaxDelta)

\* values of the Ed25519 field public
EdPublicValues ==
    {PyBytes(EdPublicB), PyBytes(<<>>), PyInt(5), PyStr("test@host")}
        \cup {PyBytes(Rep(170, n)) : n \in NearKeySize}

\* values of the Ed25519 field private_public
EdPrivatePublicValues ==
    {PyBytes(EdSeed \o EdPublicB), PyBytes(<<>>), PyBytes(EdPublicA), PyInt(5),
     PyStr("test@host")}
        \cup {PyBytes(EdSeed \o Rep(170, n)) : n \in NearKeySize}

\* the dicts with or without each of the two Ed25519 fields
EdParams ==
    {Update(a, b) :
        a \in {EmptyDict} \cup {Item("public", v) : v \in EdPublicValues},
        b \in {EmptyDict} \cup {Item("private_public", v) : v \in EdPrivatePublicValues}}

\* the mappings a class is constructed from: valid ones, and those with a
\* field missing, of a wrong type, or undeclared
ConstructParams(cls) ==
    LET format == FormatOf(cls)
        valid == {ValidParams(format, seed, stride) : seed \in Seeds, stride \in Strides}
        some == {ValidParams(format, seed, 1) : seed \in 0..1}
    IN  valid
        \cup {Without(p, format[i][1]) : p \in some, i \in 1..Len(format)}
        \cup {Update(p, Item(format[i][1], WrongValue(format[i][2], i + k))) :
                 p \in some, i \in 1..Len(format), k \in 0..1}
        \cup {Update(p, e) : p \in some, e \in ExtraFields}
        \cup (IF VariantOf(cls) = "Ed25519" THEN EdParams ELSE {})

\* the classes of the mappings compared: the parameter classes of the source,
\* and dict
CompareClasses ==
    {"dict", "RSAPublicKeyParams", "RSAPrivateKeyParams", "DSSPublicKeyParams",
     "Ed25519PublicKeyParams", "Ed25519PrivateKeyParams"}

\* the mappings compared
CompareParams ==
    {ValidParams(RSAPublicKeyParams_public_format_instructions_dict, seed, 1) :
        seed \in 0..MaxCompareSeed}
    \cup {ValidParams(RSAPrivateKeyParams_private_format_instructions_dict, 0, 1),
          Item("public", PyBytes(EdPublicA)),
          Item("public", PyBytes(EdPublicB)),
          Update(Item("public", PyBytes(EdPublicB)),
                 Item("private_public", PyBytes(EdSeed \o EdPublicB)))}

\* the mapping of class cls holding params: a dict, or cls(params)
MappingObject(cls, params) ==
    IF cls = "dict" THEN [ok |-> TRUE, obj |-> [cls |-> "dict", data |-> params]]
    ELSE PublicKeyParams_init(cls, params)

\* the classes converted from and to
ConvertClasses ==
    {"RSAPublicKeyParams", "RSAPrivateKeyParams", "Ed25519PublicKeyParams",
     "Ed25519PrivateKeyParams", "DSSPublicKeyParams", "DSSPrivateKeyParams"}

\* the mappings of the objects converted: the fields of the format; for
\* Ed25519 a key and its private bytes, a key and other private bytes, and
\* keys that are too short; and for every class an object that holds nothing
ConvertParams(cls) ==
    {EmptyDict} \cup
    IF VariantOf(cls) # "Ed25519"
    THEN {ValidParams(FormatOf(cls), seed, 1) : seed \in 0..MaxConvertSeed}
    ELSE {Project(p, Names(FormatOf(cls))) :
             p \in {Update(Item("public", PyBytes(public)),
                           Item("private_public", PyBytes(private \o public))) :
                        public \in {PublicFromSeed(EdSeed), EdPublicB, Rep(170, 31)},
                        private \in {EdSeed, Rep(1, 31)}}}

\* the destination classes, and a destination that is no class
NotAClass == "'bytes'"

Destinations == KeyObjectTypes \cup {NotAClass}

\* objects that are no keys
OtherObjects == {PyBytes(EdSeed), PyBytes(<<1>>), PyInt(5), PyStr("test@host")}

\* the integers around the powers of 256 beyond MaxMpint
BoundaryMpints ==
    {32767, 32768, 65535, 65536, 65537, 8388607, 8388608, 16777215, 16777216,
     -32768, -32769, -65536, -65537, -8388608, -8388609}

MpintValues == ((-MaxMpint)..MaxMpint) \cup BoundaryMpints

\* the keyword arguments of generate_private_params
GenerateOptions ==
    {Update(Update(e, key_size), other) :
        e \in {EmptyDict, Item("e", 3), Item("e", 17)},
        key_size \in {EmptyDict, Item("key_size", 1024), Item("key_size", 2048)},
        other \in {EmptyDict, Item("comment", 1)}}

\* the numbers of a key the crypto library generates when called with call
GeneratedNumbers(call) ==
    {[public_numbers |-> [n |-> p * q, e |-> call.public_exponent],
      d |-> d, iqmp |-> iqmp, p |-> p, q |-> q, dmp1 |-> d % (p - 1)] :
        p \in {61, 251}, q \in {53}, d \in {413, 2753}, iqmp \in {38}}

\* the envelopes written second to a stream of two keys
SecondKeys(cls) ==
    {PublicKey_init(
         cls, Item("key_type", PyStr(key_type)),
         ValidParams(FormatOf(create_key_params_class(cls, PyStr(key_type)).cls),
                     seed, 1),
         IF cls = "PrivateKey" THEN Item("comment", PyStr("test@host"))
         ELSE EmptyDict).key :
        key_type \in {"ssh-rsa", "ssh-ed25519"}, seed \in 1..MaxSecondSeed}

\* the bytes of an envelope, packed by the method of its class
OwnPack(k) == IF k.cls = "PrivateKey" THEN pack_private(k) ELSE pack_public(k)

\* how many readers run at once
MaxReaders == 2

Readers == 1..MaxReaders

\* what a reader is asked to do: decode a buffer, look a key type up, or
\* construct an envelope and pack it
Task(kind, cls, key_type, byte_string) ==
    [kind |-> kind, cls |-> cls, key_type |-> key_type, byte_string |-> byte_string]

ReaderBuffers(cls) ==
    {OwnPack(k).bytes : k \in SecondKeys(cls)}
    \cup {write_pascal_bytes(encode_utf8("xxxx")),
          write_pascal_bytes(encode_utf8("ssh-rsa")) \o <<0, 0, 0, 5, 1, 2>>}

Tasks ==
    {Task("from_bytes", "PrivateKey", "", byte_string) :
        byte_string \in ReaderBuffers("PrivateKey")}
    \cup {Task(kind, "", key_type, <<>>) :
            kind \in {"create_public_key_params", "create_private_key_params"},
            key_type \in {"ssh-dss", "ssh-rsa-cert-v01@openssh.com", "xxxx"}}
    \cup {Task("pack", cls, key_type, <<>>) :
            cls \in {"PublicKey"}, key_type \in {"ssh-ed25519", "xxxx"}}

NoKey == [cls |-> "None"]
NoOut == [kind |-> "none", bytes |-> <<>>]
NoArg == [none |-> TRUE]
NoRet == [ok |-> FALSE, exc |-> "none"]

\* a reader: its task, where it is in it, what it holds so far (the header
\* read, the class looked up, the body read, the footer read, the envelope
\* constructed) and, once done, its result
IdleReader ==
    [task |-> Task("none", "", "", <<>>), pc |-> "idle",
     header |-> NoRet, c |-> NoRet, params |-> NoRet, footer |-> NoRet,
     init |-> NoRet, result |-> NoRet]

----------------------------------------------------------------------------
(* The operations *)

Init ==
    /\ op = "init"
    /\ arg = NoArg
    /\ ret = NoRet
    /\ key = NoKey
    /\ out = NoOut
    /\ registry = KEY_TYPE_MAPPING
    /\ readers = [r \in Readers |-> IdleReader]

\* cls(header, params, footer) from a header naming a registered key type,
\* the fields of the schema the class uses for it (and maybe undeclared
\* ones), and the footer of the class
NewKey(cls, key_type, seed, stride, comment, extra) ==
    /\ op = "init"
    /\ LET c == create_key_params_class(cls, PyStr(key_type))
           header == Item("key_type", PyStr(key_type))
           params == IF c.ok THEN Update(ValidParams(FormatOf(c.cls), seed, stride), extra)
                     ELSE extra
           footer == IF cls = "PrivateKey" THEN Item("comment", PyStr(comment))
                     ELSE EmptyDict
       IN  /\ op' = "new_key"
           /\ arg' = [cls |-> cls, header |-> header, params |-> params,
                      footer |-> footer]
           /\ ret' = PublicKey_init(cls, header, params, footer)
           /\ key' = IF ret'.ok THEN ret'.key ELSE NoKey
           /\ out' = out
           /\ UNCHANGED <<registry, readers>>

\* key.pack_public()
PackPublic ==
    /\ op \in {"new_key", "pack_public", "pack_private"}
    /\ key.cls # "None"
    /\ op' = "pack_public"
    /\ arg' = NoArg
    /\ ret' = pack_public(key)
    /\ out' = IF ret'.ok THEN [kind |-> "public", bytes |-> ret'.bytes] ELSE NoOut
    /\ key' = self_after_pack(key)
    /\ UNCHANGED <<registry, readers>>

\* key.pack_private(), of a PrivateKey
PackPrivate ==
    /\ op \in {"new_key", "pack_public", "pack_private"}
    /\ key.cls = "PrivateKey"
    /\ op' = "pack_private"
    /\ arg' = NoArg
    /\ ret' = pack_private(key)
    /\ out' = IF ret'.ok THEN [kind |-> "private", bytes |-> ret'.bytes] ELSE NoOut
    /\ key' = self_after_pack(key)
    /\ UNCHANGED <<registry, readers>>

\* cls.from_bytes(out + trailer) of the bytes packed last
FromBytes(cls, trailer) ==
    /\ op \in {"pack_public", "pack_private"}
    /\ out.kind # "none"
    /\ op' = "from_bytes"
    /\ arg' = [cls |-> cls, byte_string |-> out.bytes \o trailer, trailer |-> trailer]
    /\ ret' = from_bytes(cls, out.bytes \o trailer)
    /\ UNCHANGED <<key, out>>
    /\ UNCHANGED <<registry, readers>>

\* pack_public() or pack_private() of the envelope from_bytes returned
Repack(method) ==
    /\ op = "from_bytes"
    /\ ret.ok
    /\ method = "pack_private" => ret.key.cls = "PrivateKey"
    /\ op' = "repack"
    /\ arg' = [method |-> method, self |-> ret.key]
    /\ ret' = IF method = "pack_private" THEN pack_private(ret.key)
              ELSE pack_public(ret.key)
    /\ key' = self_after_pack(ret.key)
    /\ out' = out
    /\ UNCHANGED <<registry, readers>>

\* the second of two from_byte_stream calls on one stream, the first having
\* returned first
from_byte_stream_again(cls, buf, first) ==
    IF ~first.ok THEN [ok |-> FALSE, first |-> first, pos |-> first.pos]
    ELSE [ok |-> TRUE, first |-> first,
          second |-> from_byte_stream(cls, buf, first.pos),
          pos |-> from_byte_stream(cls, buf, first.pos).pos]

\* cls.from_byte_stream(stream) twice, cls the class of the key, the stream
\* holding the bytes its own pack wrote last and then the bytes of a second
\* envelope of the class
FromByteStreamTwice(cls, second) ==
    /\ op \in {"pack_public", "pack_private"}
    /\ cls = key.cls
    /\ out.kind = (IF cls = "PrivateKey" THEN "private" ELSE "public")
    /\ OwnPack(second).ok
    /\ op' = "from_byte_stream_twice"
    /\ arg' = [cls |-> cls, second |-> second,
               byte_string |-> out.bytes \o OwnPack(second).bytes]
    /\ ret' = from_byte_stream_again(
                  cls, arg'.byte_string, from_byte_stream(cls, arg'.byte_string, 0))
    /\ UNCHANGED <<key, out>>
    /\ UNCHANGED <<registry, readers>>

\* cls.from_bytes of a hand-built buffer: a header naming any text, then a tail
FromBytesRaw(cls, key_type, tail) ==
    /\ op = "init"
    /\ op' = "from_bytes_raw"
    /\ arg' = [cls |-> cls, key_type |-> key_type, tail |-> tail,
               byte_string |-> write_pascal_bytes(encode_utf8(key_type)) \o tail]
    /\ ret' = from_bytes(cls, arg'.byte_string)
    /\ UNCHANGED <<key, out>>
    /\ UNCHANGED <<registry, readers>>

\* cls.from_bytes of the bytes packed last without their last n bytes
FromBytesCut(cls, n) ==
    /\ op \in {"pack_public", "pack_private"}
    /\ out.kind # "none"
    /\ n <= Len(out.bytes)
    /\ op' = "from_bytes_cut"
    /\ arg' = [cls |-> cls, n |-> n,
               byte_string |-> SubSeq(out.bytes, 1, Len(out.bytes) - n)]
    /\ ret' = from_bytes(cls, arg'.byte_string)
    /\ UNCHANGED <<key, out>>
    /\ UNCHANGED <<registry, readers>>

\* an MPINT written to an empty stream and read back from its start
MpintRead(w) ==
    IF ~w.ok THEN w
    ELSE read_from_format_instruction("MPINT", w.bytes, 0) @@ [bytes |-> w.bytes]

Mpint(x) ==
    /\ op = "init"
    /\ op' = "mpint"
    /\ arg' = [x |-> x]
    /\ ret' = MpintRead(write_from_format_instruction("MPINT", PyInt(x)))
    /\ UNCHANGED <<key, out>>
    /\ UNCHANGED <<registry, readers>>

\* RSAPrivateKeyParams.generate_private_params(kwargs)
Generate(kwargs, private_key_numbers) ==
    /\ op = "init"
    /\ op' = "generate_private_params"
    /\ arg' = [kwargs |-> kwargs, private_key_numbers |-> private_key_numbers]
    /\ ret' = RSAPrivateKeyParams_generate_private_params(kwargs, private_key_numbers)
    /\ UNCHANGED <<key, out>>
    /\ UNCHANGED <<registry, readers>>

\* cls(params)
Construct(cls, params) ==
    /\ op = "init"
    /\ op' = "construct"
    /\ arg' = [cls |-> cls, params |-> params]
    /\ ret' = PublicKeyParams_init(cls, params)
    /\ UNCHANGED <<key, out>>
    /\ UNCHANGED <<registry, readers>>

\* create_public_key_params(key_type)
FactoryPublic(key_type) ==
    /\ op = "init"
    /\ op' = "create_public_key_params"
    /\ arg' = [key_type |-> key_type]
    /\ ret' = create_public_key_params(PyStr(key_type))
    /\ UNCHANGED <<key, out>>
    /\ UNCHANGED <<registry, readers>>

\* create_private_key_params(key_type)
FactoryPrivate(key_type) ==
    /\ op = "init"
    /\ op' = "create_private_key_params"
    /\ arg' = [key_type |-> key_type]
    /\ ret' = create_private_key_params(PyStr(key_type))
    /\ UNCHANGED <<key, out>>
    /\ UNCHANGED <<registry, readers>>

\* self == other, of two mappings
Compare(cls, params, other_cls, other_params) ==
    /\ op = "init"
    /\ MappingObject(cls, params).ok
    /\ MappingObject(other_cls, other_params).ok
    /\ op' = "eq"
    /\ arg' = [self |-> MappingObject(cls, params).obj,
               other |-> MappingObject(other_cls, other_params).obj]
    /\ ret' = [ok |-> TRUE, val |-> PublicKeyParams_eq(arg'.self, arg'.other)]
    /\ UNCHANGED <<key, out>>
    /\ UNCHANGED <<registry, readers>>

\* cls(params).convert_to(destination_class)
ConvertTo(cls, params, destination_class) ==
    /\ op = "init"
    /\ PublicKeyParams_init(cls, params).ok
    /\ op' = "convert_to"
    /\ arg' = [cls |-> cls, params |-> params, destination_class |-> destination_class]
    /\ ret' = convert_to(PublicKeyParams_init(cls, params).obj, destination_class)
    /\ UNCHANGED <<key, out>>
    /\ UNCHANGED <<registry, readers>>

\* cls.convert_from(key_object), of the object convert_to returned
ConvertFrom(cls) ==
    /\ op = "convert_to"
    /\ ret.ok
    /\ op' = "convert_from"
    /\ arg' = [cls |-> cls, key_object |-> ret.obj, source |-> arg]
    /\ ret' = convert_from(cls, ret.obj)
    /\ UNCHANGED <<key, out>>
    /\ UNCHANGED <<registry, readers>>

\* cls.convert_from(key_object), of another object
ConvertFromOther(cls, key_object) ==
    /\ op = "init"
    /\ op' = "convert_from"
    /\ arg' = [cls |-> cls, key_object |-> key_object, source |-> NoArg]
    /\ ret' = convert_from(cls, key_object)
    /\ UNCHANGED <<key, out>>
    /\ UNCHANGED <<registry, readers>>

\* The readers: each runs one operation at a time, step by step, on a buffer
\* of its own; the steps of several readers interleave.

ReaderStep(r, next) ==
    /\ readers' = [readers EXCEPT ![r] = next]
    /\ UNCHANGED <<op, arg, ret, key, out>>

Done(reader, result) == [reader EXCEPT !.pc = "done", !.result = result]

\* a reader that runs nothing is given a task
Begin(r, task) ==
    /\ readers[r].pc \in {"idle", "done"}
    /\ ReaderStep(r, [IdleReader EXCEPT !.task = task, !.pc = task.kind])
    /\ registry' = registry

\* from_byte_stream: the read of the header
DecodeHeader(r) ==
    /\ readers[r].pc = "from_bytes"
    /\ LET header == read_from_format_instructions_dict(
                         header_format_instructions_dict(readers[r].task.cls),
                         readers[r].task.byte_string, 0)
       IN  ReaderStep(r, IF ~header.ok THEN Done(readers[r], Failed(header))
                         ELSE [readers[r] EXCEPT !.pc = "lookup", !.header = header])
    /\ registry' = registry

\* create_key_params_dict: the lookup of the key type in the registry
DecodeLookup(r) ==
    /\ readers[r].pc = "lookup"
    /\ LET lookup == registry_getitem(registry, readers[r].header.val["key_type"])
       IN  /\ ReaderStep(r, [readers[r] EXCEPT
                                !.pc = "body",
                                !.c = class_of_lookup(
                                          readers[r].task.cls = "PrivateKey", lookup)])
           /\ registry' = lookup.mapping

\* create_key_params_dict: the read of the body in the format of the class
DecodeBody(r) ==
    /\ readers[r].pc = "body"
    /\ LET params == read_key_params_dict(
                         readers[r].task.cls, readers[r].c,
                         readers[r].task.byte_string, readers[r].header.pos)
       IN  ReaderStep(r, IF ~params.ok THEN Done(readers[r], Failed(params))
                         ELSE [readers[r] EXCEPT !.pc = "footer", !.params = params])
    /\ registry' = registry

\* from_byte_stream: the read of the footer
DecodeFooter(r) ==
    /\ readers[r].pc = "footer"
    /\ LET footer == read_from_format_instructions_dict(
                         footer_format_instructions_dict(readers[r].task.cls),
                         readers[r].task.byte_string, readers[r].params.pos)
       IN  ReaderStep(r, IF ~footer.ok THEN Done(readers[r], Failed(footer))
                         ELSE [readers[r] EXCEPT !.pc = "init", !.footer = footer])
    /\ registry' = registry

\* cls(header, params, footer): create_key_params looks the key type up again
DecodeInit(r) ==
    /\ readers[r].pc = "init"
    /\ LET lookup == registry_getitem(registry, readers[r].header.val["key_type"])
       IN  /\ ReaderStep(
                  r, [readers[r] EXCEPT
                         !.pc = "remainder",
                         !.init =
                             PublicKey_init_params(
                                 readers[r].task.cls, readers[r].header.val,
                                 construct_key_params(
                                     class_of_lookup(
                                         readers[r].task.cls = "PrivateKey", lookup),
                                     readers[r].params.val),
                                 readers[r].footer.val)
                             @@ [pos |-> readers[r].footer.pos]])
           /\ registry' = lookup.mapping

\* from_bytes: the bytes and what is left of them are kept on the envelope
DecodeRemainder(r) ==
    /\ readers[r].pc = "remainder"
    /\ ReaderStep(r, Done(readers[r],
                          from_bytes_remainder(readers[r].task.byte_string,
                                               readers[r].init)))
    /\ registry' = registry

\* create_public_key_params(key_type) or create_private_key_params(key_type)
FactoryLookup(r) ==
    /\ readers[r].pc \in {"create_public_key_params", "create_private_key_params"}
    /\ LET lookup == registry_getitem(registry, PyStr(readers[r].task.key_type))
       IN  /\ ReaderStep(
                  r, Done(readers[r],
                          class_of_lookup(
                              readers[r].pc = "create_private_key_params", lookup)))
           /\ registry' = lookup.mapping

\* the header, the parameters and the footer of the envelope a reader
\* constructs
TaskHeader(task) == Item("key_type", PyStr(task.key_type))

TaskParams(task) ==
    ValidParams(Ed25519PublicKeyParams_public_format_instructions_dict, 1, 1)

TaskFooter(task) ==
    IF task.cls = "PrivateKey" THEN Item("comment", PyStr("test@host")) ELSE EmptyDict

\* cls(header, params, footer) of a reader's own header and parameters
BuildKey(r) ==
    /\ readers[r].pc = "pack"
    /\ LET lookup == registry_getitem(registry, PyStr(readers[r].task.key_type))
           init == PublicKey_init_params(
                       readers[r].task.cls, TaskHeader(readers[r].task),
                       construct_key_params(
                           class_of_lookup(readers[r].task.cls = "PrivateKey", lookup),
                           TaskParams(readers[r].task)),
                       TaskFooter(readers[r].task))
       IN  /\ ReaderStep(r, IF ~init.ok THEN Done(readers[r], init)
                            ELSE [readers[r] EXCEPT !.pc = "pack_public", !.init = init])
           /\ registry' = lookup.mapping

\* key.pack_public() of the envelope the reader constructed
PackKey(r) ==
    /\ readers[r].pc = "pack_public"
    /\ ReaderStep(r, Done(readers[r], pack_public(readers[r].init.key)))
    /\ registry' = registry

NextReaders ==
    \/ \E r \in Readers, task \in Tasks : Begin(r, task)
    \/ \E r \in Readers : DecodeHeader(r)
    \/ \E r \in Readers : DecodeLookup(r)
    \/ \E r \in Readers : DecodeBody(r)
    \/ \E r \in Readers : DecodeFooter(r)
    \/ \E r \in Readers : DecodeInit(r)
    \/ \E r \in Readers : DecodeRemainder(r)
    \/ \E r \in Readers : FactoryLookup(r)
    \/ \E r \in Readers : BuildKey(r)
    \/ \E r \in Readers : PackKey(r)

SpecReaders == Init /\ [][NextReaders]_vars

Next ==
    \/ \E cls \in {"PublicKey", "PrivateKey"}, key_type \in DOMAIN KEY_TYPE_MAPPING,
          seed \in Seeds, stride \in Strides, comment \in Comments, extra \in ExtraFields :
            NewKey(cls, key_type, seed, stride, comment, extra)
    \/ PackPublic
    \/ PackPrivate
    \/ \E cls \in {"PublicKey", "PrivateKey"}, trailer \in Trailers : FromBytes(cls, trailer)
    \/ \E method \in {"pack_public", "pack_private"} : Repack(method)
    \/ \E cls \in {"PublicKey", "PrivateKey"} : \E second \in SecondKeys(cls) :
            FromByteStreamTwice(cls, second)
    \/ \E cls \in {"PublicKey", "PrivateKey"}, key_type \in Texts, tail \in RawTails :
            FromBytesRaw(cls, key_type, tail)
    \/ \E cls \in {"PublicKey", "PrivateKey"}, n \in 1..MaxCut : FromBytesCut(cls, n)
    \/ \E x \in MpintValues : Mpint(x)
    \/ \E kwargs \in GenerateOptions :
          \E private_key_numbers \in GeneratedNumbers(rsa_generate_private_key_call(kwargs)) :
            Generate(kwargs, private_key_numbers)
    \/ \E cls \in Classes : \E params \in ConstructParams(cls) : Construct(cls, params)
    \/ \E key_type \in Texts : FactoryPublic(key_type)
    \/ \E key_type \in Texts : FactoryPrivate(key_type)
    \/ \E cls \in CompareClasses, params \in CompareParams,
          other_cls \in CompareClasses, other_params \in CompareParams :
            Compare(cls, params, other_cls, other_params)
    \/ \E cls \in ConvertClasses, destination_class \in Destinations :
          \E params \in ConvertParams(cls) : ConvertTo(cls, params, destination_class)
    \/ \E cls \in ConvertClasses : ConvertFrom(cls)
    \/ \E cls \in ConvertClasses, key_object \in OtherObjects :
            ConvertFromOther(cls, key_object)

Spec == Init /\ [][Next]_vars

----------------------------------------------------------------------------
(* Properties *)

\* d holds exactly the fields of the format, each with a value of its type
ExactlyTyped(d, format) ==
    /\ DOMAIN d = Names(format)
    /\ \A i \in 1..Len(format) : d[format[i][1]].t = InstructionType(format[i][2])

\* header, params and footer of the envelope k hold exactly the fields of
\* their schemas, correctly typed: the public schema in a PublicKey, the
\* private schema in a PrivateKey
ValidEnvelope(k) ==
    /\ k.cls \in {"PublicKey", "PrivateKey"}
    /\ ExactlyTyped(k.header, header_format_instructions_dict(k.cls))
    /\ ExactlyTyped(k.footer, footer_format_instructions_dict(k.cls))
    /\ IsPrivateClass(k.params.cls) <=> k.cls = "PrivateKey"
    /\ ExactlyTyped(k.params.data, FormatOf(k.params.cls))

\* the state after cls.from_bytes of what the key's own pack wrote
\* (pack_public of a PublicKey, pack_private of a PrivateKey), and a trailer
DecodedOwnEncoding ==
    /\ op = "from_bytes"
    /\ arg.cls = key.cls
    /\ out.kind = (IF key.cls = "PrivateKey" THEN "private" ELSE "public")

\* C1: for every registered key type and every envelope k that holds exactly
\* the fields of its schemas with correctly typed values, encoding k succeeds
\* and decoding the bytes gives an envelope equal to k:
\* PublicKey.from_bytes(k.pack_public()) == k for a PublicKey,
\* PrivateKey.from_bytes(k.pack_private()) == k for a PrivateKey.
C1_RoundTrip ==
    /\ (op \in {"pack_public", "pack_private"} /\ ValidEnvelope(key)) => ret.ok
    /\ (DecodedOwnEncoding /\ arg.trailer = <<>> /\ ValidEnvelope(key)) =>
            ret.ok /\ PublicKey_eq(ret.key, key)

C1_Witness ==
    /\ DecodedOwnEncoding /\ arg.trailer = <<>> /\ ValidEnvelope(key)
    /\ key.cls = "PrivateKey"
    /\ key.header["key_type"].v = "ssh-rsa"
    /\ key.params.data["q"].v = -129
    /\ key.footer["comment"].v = "test@host"
    /\ ret.ok /\ ret.key.params = key.params

\* C2: decoding encode(k) followed by a trailer gives an envelope equal to k;
\* a remainder is attached and 'Excess bytes in key' is warned exactly when
\* the trailer has at least one byte, the remainder is then the trailer, and
\* the decode does not fail.
C2_ExcessBytes ==
    (DecodedOwnEncoding /\ ValidEnvelope(key)) =>
        /\ ret.ok
        /\ PublicKey_eq(ret.key, key)
        /\ "remainder" \in DOMAIN ret.key.attrs <=> Len(arg.trailer) > 0
        /\ (\E i \in 1..Len(ret.warnings) : ret.warnings[i] = "Excess bytes in key")
               <=> Len(arg.trailer) > 0
        /\ Len(arg.trailer) > 0 => ret.key.attrs["remainder"] = PyBytes(arg.trailer)

C2_Witness ==
    /\ DecodedOwnEncoding /\ ValidEnvelope(key)
    /\ arg.trailer = <<0, 0, 0, 1, 7>>
    /\ ret.ok
    /\ ret.key.attrs["remainder"] = PyBytes(<<0, 0, 0, 1, 7>>)
    /\ ret.warnings = <<"Excess bytes in key">>

\* C3: decoding (PublicKey or PrivateKey) a buffer whose header names a key
\* type without registry entry raises KeyError; the lookup is by the exact
\* text (SSH-RSA is not ssh-rsa), the failure comes with the cursor right
\* after the header, before any byte of body or footer is read, and no
\* envelope is returned.
C3_UnknownKeyType ==
    (op = "from_bytes_raw" /\ arg.key_type \notin DOMAIN KEY_TYPE_MAPPING) =>
        /\ ~ret.ok
        /\ ret.exc = "KeyError"
        /\ ret.pos = STRING_LENGTH_SIZE + Len(encode_utf8(arg.key_type))
        /\ "key" \notin DOMAIN ret

C3_Witness ==
    /\ op = "from_bytes_raw"
    /\ arg.key_type = "SSH-RSA"
    /\ arg.cls = "PrivateKey"
    /\ Len(arg.tail) > 0
    /\ ret.exc = "KeyError"
    /\ ret.pos < Len(arg.byte_string)

\* the classes tests/key_params/test_factory.py expects of the certificate
\* key types
CertPublicClass ==
    "ssh-rsa-cert-v01@openssh.com" :> "Cert_RSA_PublicKeyParams" @@
    "ssh-ed25519-cert-v01@openssh.com" :> "Cert_Ed25519_PublicKeyParams" @@
    "ssh-dss-cert-v01@openssh.com" :> "Cert_DSS_PublicKeyParams" @@
    "ecdsa-sha2-nistp256-cert-v01@openssh.com" :> "Cert_ECDSA_NISTP256_PublicKeyParams" @@
    "ecdsa-sha2-nistp384-cert-v01@openssh.com" :> "Cert_ECDSA_NISTP384_PublicKeyParams" @@
    "ecdsa-sha2-nistp521-cert-v01@openssh.com" :> "Cert_ECDSA_NISTP521_PublicKeyParams" @@
    "sk-ssh-ed25519-cert-v01@openssh.com" :> "Cert_SecurityKey_Ed25519_PublicKeyParams" @@
    "sk-ecdsa-sha2-nistp256-cert-v01@openssh.com" :>
        "Cert_SecurityKey_ECDSA_NISTP256_PublicKeyParams"

NonCertClasses ==
    "ssh-rsa" :> <<"RSAPublicKeyParams", "RSAPrivateKeyParams">> @@
    "ssh-ed25519" :> <<"Ed25519PublicKeyParams", "Ed25519PrivateKeyParams">> @@
    "ssh-dss" :> <<"DSSPublicKeyParams", "DSSPrivateKeyParams">> @@
    "ssh-ecdsa-nistp256" :>
        <<"ECDSA_NISTP256_PublicKeyParams", "ECDSA_NISTP256_PrivateKeyParams">> @@
    "ssh-ecdsa-nistp384" :>
        <<"ECDSA_NISTP384_PublicKeyParams", "ECDSA_NISTP384_PrivateKeyParams">> @@
    "ssh-ecdsa-nistp521" :>
        <<"ECDSA_NISTP521_PublicKeyParams", "ECDSA_NISTP521_PrivateKeyParams">> @@
    "sk-ecdsa-sha2-nistp256@openssh.com" :>
        <<"SecurityKey_ECDSA_NISTP256_PublicKeyParams",
          "SecurityKey_ECDSA_NISTP256_PrivateKeyParams">> @@
    "sk-ssh-ed25519@openssh.com" :>
        <<"SecurityKey_Ed25519_PublicKeyParams", "SecurityKey_Ed25519_PrivateKeyParams">>

C6_EqualIffSameVariant ==
    op = "eq" =>
        (ret.val <=> (arg.self.cls = arg.other.cls /\ arg.self.data = arg.other.data))

\* C6, amended: two parameter objects compare equal iff they hold the same
\* name-to-value items, whatever their variants, and a parameter object
\* equals a dict holding its items.
C6_EqualIffSameItems ==
    op = "eq" =>
        (ret.val <=>
            /\ DOMAIN arg.self.data = DOMAIN arg.other.data
            /\ \A name \in DOMAIN arg.self.data :
                   arg.self.data[name] = arg.other.data[name])

C6_Witness ==
    /\ op = "eq"
    /\ arg.self.cls = "RSAPublicKeyParams"
    /\ arg.other.cls = "RSAPrivateKeyParams"
    /\ DOMAIN arg.self.data = {"e", "n"}
    /\ arg.self.data = arg.other.data
    /\ ret.val

\* C7 as stated: constructing a parameter object of any variant from any
\* mapping raises nothing and the object holds exactly the mapping given.
C7_ConstructionNeverFails ==
    op = "construct" => ret.ok /\ ret.obj.data = arg.params

\* C8: constructing Ed25519PublicKeyParams from a mapping whose public is a
\* byte string succeeds, and warns 'Public key not of length 32' exactly when
\* the length of public is not 32.
C8_Ed25519PublicLength ==
    (/\ op = "construct"
     /\ arg.cls = "Ed25519PublicKeyParams"
     /\ "public" \in DOMAIN arg.params
     /\ arg.params["public"].t = "bytes") =>
        /\ ret.ok
        /\ ret.obj.data = arg.params
        /\ (\E i \in 1..Len(ret.warnings) :
                ret.warnings[i] = "Public key not of length 32")
               <=> Len(arg.params["public"].v) # 32

C8_Witness ==
    /\ op = "construct"
    /\ arg.cls = "Ed25519PublicKeyParams"
    /\ arg.params = Item("public", PyBytes(Rep(170, 31)))
    /\ ret.ok
    /\ ret.warnings = <<"Public key not of length 32">>

\* the construction of Ed25519PrivateKeyParams from a mapping whose public
\* and private_public are byte strings
ConstructedEd25519Private ==
    /\ op = "construct"
    /\ arg.cls = "Ed25519PrivateKeyParams"
    /\ {"public", "private_public"} \subseteq DOMAIN arg.params
    /\ arg.params["public"].t = "bytes"
    /\ arg.params["private_public"].t = "bytes"

\* C9: constructing Ed25519PrivateKeyParams warns 'Public key does not match'
\* exactly when the bytes of private_public after the first 32 differ from
\* public, and 'Private key not of length 32' exactly when private_public is
\* not 64 bytes long; with a 32-byte public P and private_public = S \o P, S
\* of 32 bytes, it warns of nothing.
C9_Ed25519PrivateWarnings ==
    ConstructedEd25519Private =>
        /\ ret.ok
        /\ (\E i \in 1..Len(ret.warnings) : ret.warnings[i] = "Public key does not match")
               <=> SubSeq(arg.params["private_public"].v, 33,
                          Len(arg.params["private_public"].v))
                       # arg.params["public"].v
        /\ (\E i \in 1..Len(ret.warnings) :
                ret.warnings[i] = "Private key not of length 32")
               <=> Len(arg.params["private_public"].v) # 64
        /\ (/\ Len(arg.params["public"].v) = 32
            /\ Len(arg.params["private_public"].v) = 64
            /\ SubSeq(arg.params["private_public"].v, 33, 64) = arg.params["public"].v
            /\ DOMAIN arg.params = {"public", "private_public"})
               => ret.warnings = <<>>

C9_Witness ==
    /\ ConstructedEd25519Private
    /\ arg.params["public"].v = EdPublicB
    /\ arg.params["private_public"].v = EdSeed \o Rep(170, 33)
    /\ ret.ok
    /\ ret.warnings = <<"Public key does not match", "Private key not of length 32">>

\* the envelope k without the fields of its parameters that the format of
\* their class does not declare
WithoutExtraFields(k) ==
    [k EXCEPT !.params.data =
        [name \in DOMAIN k.params.data \cap Names(FormatOf(k.params.cls)) |->
            k.params.data[name]]]

\* C10: the fields of a mapping that the schema of the variant does not
\* declare are kept in the constructed object, and pack_public and
\* pack_private write the bytes they write of the same envelope without them.
C10_ExtraFieldsNotWritten ==
    /\ (op = "new_key" /\ ret.ok) => ret.key.params.data = arg.params
    /\ (op = "construct" /\ ret.ok) => ret.obj.data = arg.params
    /\ op = "pack_public" => ret = pack_public(WithoutExtraFields(key))
    /\ op = "pack_private" => ret = pack_private(WithoutExtraFields(key))

C10_Witness ==
    /\ op = "pack_public"
    /\ key.cls = "PrivateKey"
    /\ DOMAIN key.params.data = {"n", "e", "d", "iqmp", "p", "q", "extra", "note"}
    /\ ret.ok
    /\ ret.bytes = pack_public(WithoutExtraFields(key)).bytes
    /\ Len(ret.bytes) = STRING_LENGTH_SIZE + Len(encode_utf8("ssh-rsa"))
                            + 2 * (STRING_LENGTH_SIZE + 1)

\* the mpint fields of data named by names, from the i-th on, one after the
\* other: each a length prefix and the two's complement of the value
RECURSIVE MpintFields(_, _, _)
MpintFields(data, names, i) ==
    IF i > Len(names) THEN <<>>
    ELSE write_pascal_bytes(mpint_bytes(data[names[i]].v))
             \o MpintFields(data, names, i + 1)

\* the bytes of the string field name of the dict d
StringField(d, name) == write_pascal_bytes(encode_utf8(d[name].v))

\* what pack wrote is the header, then the fields of the format in their
\* order, then the footer of the kind of key packed, and nothing else
PackedInOrder ==
    /\ (op = "pack_public" /\ ret.ok) =>
          /\ ret.bytes =
                write_from_format_instructions_dict(
                    header_format_instructions_dict("PublicKey"), key.header).bytes
                \o write_from_format_instructions_dict(
                       public_format_instructions_dict(key.params.cls),
                       key.params.data).bytes
          /\ VariantOf(key.params.cls) = "RSA" =>
                ret.bytes = StringField(key.header, "key_type")
                                \o MpintFields(key.params.data, <<"e", "n">>, 1)
    /\ (op = "pack_private" /\ ret.ok) =>
          /\ ret.bytes =
                write_from_format_instructions_dict(
                    header_format_instructions_dict("PrivateKey"), key.header).bytes
                \o write_from_format_instructions_dict(
                       private_format_instructions_dict(key.params.cls),
                       key.params.data).bytes
                \o write_from_format_instructions_dict(
                       footer_format_instructions_dict("PrivateKey"), key.footer).bytes
          /\ VariantOf(key.params.cls) = "RSA" =>
                ret.bytes = StringField(key.header, "key_type")
                                \o MpintFields(key.params.data,
                                               <<"n", "e", "d", "iqmp", "p", "q">>, 1)
                                \o StringField(key.footer, "comment")

\* C11: pack writes the header fields, then the fields of the parameters in
\* the order the format of the variant declares them (the public format for
\* pack_public: e, n for RSA; the private format for pack_private: n, e, d,
\* iqmp, p, q for RSA), then the footer fields, with nothing in between; and
\* packing the same envelope again gives the same bytes.
C11_SchemaOrderDeterministic ==
    /\ []PackedInOrder
    /\ [][(op \in {"pack_public", "pack_private"} /\ op' = op /\ key' = key)
              => (ret' = ret /\ out' = out)]_vars

C11_Witness ==
    /\ op = "pack_private"
    /\ ret.ok
    /\ VariantOf(key.params.cls) = "RSA"
    /\ key.params.data["n"] # key.params.data["e"]
    /\ key.footer["comment"].v = "test@host"
    /\ ret.bytes = StringField(key.header, "key_type")
                       \o MpintFields(key.params.data,
                                      <<"n", "e", "d", "iqmp", "p", "q">>, 1)
                       \o StringField(key.footer, "comment")

\* convert_to returned an object for the parameters arg.source.params of the
\* class arg.cls, holding exactly the fields of its format, and a type the
\* class has a conversion function for, and arg.cls.convert_from was given it
ConvertedBack ==
    /\ op = "convert_from"
    /\ arg.source # NoArg
    /\ arg.source.cls = arg.cls
    /\ ExactlyTyped(arg.source.params, FormatOf(arg.cls))
    /\ \E i \in 1..Len(conversion_functions(arg.cls)) :
           conversion_functions(arg.cls)[i] = arg.source.destination_class

\* an Ed25519 private mapping that is the key of its private bytes
ConsistentEd25519(params) ==
    /\ Len(params["public"].v) = 32
    /\ Len(params["private_public"].v) = 64
    /\ SubSeq(params["private_public"].v, 33, 64) = params["public"].v
    /\ params["public"].v = PublicFromSeed(SubSeq(params["private_public"].v, 1, 32))

Least(S) == CHOOSE i \in S : \A j \in S : i <= j

\* the conversion functions of cls whose type key_object is an instance of
OwnFunctions(cls, key_object) ==
    {i \in 1..Len(conversion_functions(cls)) :
        IsSubclass(key_object.t, conversion_functions(cls)[i])}

\* the subclasses of cls whose convert_from returns an object for key_object
ConvertingSubclasses(cls, key_object) ==
    {j \in 1..Len(Subclasses(cls)) : convert_from(Subclasses(cls)[j], key_object).ok}

\* C18: cls.convert_from(obj) applies the first conversion function of cls,
\* in iteration order, whose type obj is an instance of, whatever the
\* subclasses would make of obj; when cls has none, it returns the fields of
\* its format from the first subclass, in order, whose convert_from returns
\* an object; when there is none either it raises NotImplementedError, as a
\* private class given a public key object does.
C18_ConvertFromResolution ==
    op = "convert_from" =>
        /\ OwnFunctions(arg.cls, arg.key_object) # {} =>
              ret = convert_from_construct(
                        arg.cls,
                        object_to_mapping(
                            arg.cls,
                            conversion_functions(arg.cls)[
                                Least(OwnFunctions(arg.cls, arg.key_object))],
                            arg.key_object))
        /\ (/\ OwnFunctions(arg.cls, arg.key_object) = {}
            /\ ConvertingSubclasses(arg.cls, arg.key_object) # {}) =>
              /\ ret.ok
              /\ ret.obj.cls = arg.cls
              /\ ret.obj.data =
                    Project(convert_from(
                                Subclasses(arg.cls)[
                                    Least(ConvertingSubclasses(arg.cls, arg.key_object))],
                                arg.key_object).obj.data,
                            Names(FormatOf(arg.cls)))
        /\ (/\ OwnFunctions(arg.cls, arg.key_object) = {}
            /\ ConvertingSubclasses(arg.cls, arg.key_object) = {}) =>
              ~ret.ok /\ ret.exc = "NotImplementedError"
        /\ (arg.cls = "Ed25519PublicKeyParams" /\ arg.key_object.t = "bytes") =>
              ret.ok /\ ret.obj.data = Item("public", arg.key_object)
        /\ (/\ IsPrivateClass(arg.cls)
            /\ arg.key_object.t \in {"RSAPublicKey", "Ed25519PublicKey", "DSAPublicKey"}) =>
              ~ret.ok /\ ret.exc = "NotImplementedError"

C18_Witness ==
    /\ op = "convert_from"
    /\ arg.cls = "DSSPublicKeyParams"
    /\ arg.key_object.t = "DSAPrivateKey"
    /\ OwnFunctions(arg.cls, arg.key_object) = {}
    /\ ret.ok
    /\ ret.obj.cls = "DSSPublicKeyParams"
    /\ DOMAIN ret.obj.data = {"p", "q", "g", "y"}
    /\ \A name \in {"p", "q", "g", "y"} : ret.obj.data[name] = arg.key_object.v[name]

\* the object the conversion function of the class supercls for the type
\* candidate_class builds from the parameters object self
AdapterObject(supercls, candidate_class, self) ==
    CASE candidate_class = "bytes" /\ supercls = "Ed25519PublicKeyParams" ->
            [ok |-> TRUE, obj |-> self.data["public"]]
      [] candidate_class = "bytes" /\ supercls = "Ed25519PrivateKeyParams" ->
            [ok |-> TRUE, obj |-> SliceTo(self.data["private_public"], 32)]
      [] candidate_class = "Ed25519PublicKey" ->
            Ed25519KeyObject("Ed25519PublicKey", "public", self.data["public"])
      [] candidate_class = "Ed25519PrivateKey" ->
            Ed25519KeyObject("Ed25519PrivateKey", "private",
                             SliceTo(self.data["private_public"], 32))
      [] OTHER -> KeyObject(candidate_class, self.data, Names(FormatOf(supercls)))

\* the conversion functions <<i, j>> (the j-th of the i-th class of the
\* method resolution order of cls) whose type is a subclass of the destination
Adapters(cls, destination_class) ==
    {ij \in (1..Len(mro(cls))) \X (1..2) :
        /\ ij[2] <= Len(conversion_functions(mro(cls)[ij[1]]))
        /\ IsSubclass(conversion_functions(mro(cls)[ij[1]])[ij[2]], destination_class)}

\* the first of a non-empty set of them
FirstAdapter(S) ==
    CHOOSE ij \in S : \A kl \in S : ij[1] < kl[1] \/ (ij[1] = kl[1] /\ ij[2] <= kl[2])

\* C19 as stated: convert_to(T), T a class, goes from the class of the
\* object up to its public class and applies the first conversion function
\* whose type is a subclass of T; when no class on the way has one it raises
\* NotImplementedError.
C19_ConvertToResolution ==
    (/\ op = "convert_to"
     /\ arg.destination_class \in KeyObjectTypes
     /\ ExactlyTyped(arg.params, FormatOf(arg.cls))) =>
        IF Adapters(arg.cls, arg.destination_class) = {}
        THEN ~ret.ok /\ ret.exc = "NotImplementedError"
        ELSE ret = AdapterObject(
                       mro(arg.cls)[FirstAdapter(Adapters(arg.cls, arg.destination_class))[1]],
                       conversion_functions(
                           mro(arg.cls)[FirstAdapter(
                               Adapters(arg.cls, arg.destination_class))[1]])[
                           FirstAdapter(Adapters(arg.cls, arg.destination_class))[2]],
                       [cls |-> arg.cls, data |-> arg.params])

\* the reads the decode of buf asks of the codec, up to the first that fails:
\* the footer, the body p having been read
CodecReadFooter(cls, buf, p) ==
    IF ~p.ok THEN p
    ELSE read_from_format_instructions_dict(
             footer_format_instructions_dict(cls), buf, p.pos)

\* the body, the header h having been read and named the class c; a key type
\* the factory does not know ends the decode before the codec is asked again
CodecReadBody(cls, buf, h, c) ==
    IF ~c.ok THEN [ok |-> TRUE]
    ELSE CodecReadFooter(
             cls, buf,
             read_from_format_instructions_dict(FormatOf(c.cls), buf, h.pos))

CodecReadHeader(cls, buf, h) ==
    IF ~h.ok THEN h
    ELSE CodecReadBody(cls, buf, h, create_key_params_class(cls, h.val["key_type"]))

CodecReads(cls, buf) ==
    CodecReadHeader(
        cls, buf,
        read_from_format_instructions_dict(
            header_format_instructions_dict(cls), buf, 0))

\* r is the failure of the codec read failed, and nothing else: no envelope,
\* no warning of excess bytes
PropagatedFrom(r, failed) ==
    /\ ~r.ok
    /\ r.exc = failed.exc
    /\ r.pos = failed.pos
    /\ DOMAIN r = {"ok", "exc", "pos", "warnings"}
    /\ \A i \in 1..Len(r.warnings) : r.warnings[i] # "Excess bytes in key"

\* C13: when a read of the codec fails during a decode (the buffer ends
\* before the bytes a field announces), from_byte_stream and from_bytes fail
\* with that same error and nothing added to it: no envelope is returned and
\* no warning of excess bytes is emitted.  The buffer
\* 00 00 00 07 "ssh-rsa" 00 00 00 05 01 02 fails with the short read.
C13_CodecFailurePropagates ==
    /\ (/\ op \in {"from_bytes", "from_bytes_raw", "from_bytes_cut"}
        /\ ~CodecReads(arg.cls, arg.byte_string).ok) =>
          /\ PropagatedFrom(ret, CodecReads(arg.cls, arg.byte_string))
          /\ PropagatedFrom(from_byte_stream(arg.cls, arg.byte_string, 0),
                            CodecReads(arg.cls, arg.byte_string))
    /\ (/\ op = "from_bytes_raw"
        /\ arg.byte_string =
              <<0, 0, 0, 7>> \o encode_utf8("ssh-rsa") \o <<0, 0, 0, 5, 1, 2>>) =>
          ~ret.ok /\ ret.exc = "EOFError"

C13_Witness ==
    /\ op = "from_bytes_raw"
    /\ arg.byte_string = <<0, 0, 0, 7>> \o encode_utf8("ssh-rsa") \o <<0, 0, 0, 5, 1, 2>>
    /\ ~ret.ok
    /\ ret.exc = "EOFError"

\* a private key whose comment is cut short
C13_WitnessFooter ==
    /\ op = "from_bytes_cut"
    /\ arg.cls = "PrivateKey"
    /\ out.kind = "private"
    /\ ~ret.ok
    /\ ret.exc = "EOFError"

\* the bytes of a written field after its length prefix
Payload(b) == SubSeq(b, STRING_LENGTH_SIZE + 1, Len(b))

\* b is a minimal two's-complement form: its first byte is not a sign byte
\* the next byte already implies
Minimal(b) ==
    /\ Len(b) = 1 => b[1] # 0
    /\ Len(b) >= 2 => /\ ~(b[1] = 0 /\ b[2] < 128)
                      /\ ~(b[1] = 255 /\ b[2] >= 128)

\* C14: an integer written as MPINT and read back is the same integer, the
\* whole field being consumed; the bytes written after the length prefix are
\* the minimal two's-complement form: none for zero, a first byte whose top
\* bit tells the sign, a leading zero byte only before a byte whose top bit is
\* set, a leading 0xFF byte only before a byte whose top bit is clear.
C14_MpintRoundTripMinimal ==
    op = "mpint" =>
        /\ ret.ok
        /\ ret.val = PyInt(arg.x)
        /\ ret.pos = Len(ret.bytes)
        /\ FromBE(SubSeq(ret.bytes, 1, STRING_LENGTH_SIZE)) = Len(Payload(ret.bytes))
        /\ arg.x = 0 <=> Payload(ret.bytes) = <<>>
        /\ Minimal(Payload(ret.bytes))
        /\ arg.x > 0 => /\ Payload(ret.bytes)[1] < 128
                        /\ FromBE(Payload(ret.bytes)) = arg.x
        /\ arg.x < 0 => Payload(ret.bytes)[1] >= 128

\* 128 takes a leading zero byte
C14_Witness ==
    /\ op = "mpint"
    /\ arg.x = 128
    /\ ret.ok
    /\ ret.bytes = <<0, 0, 0, 2, 0, 128>>
    /\ ret.val = PyInt(128)

\* C15: RSAPrivateKeyParams.generate_private_params calls the crypto library
\* with the public exponent 65537 and the key size 4096 unless options say
\* otherwise: the option e replaces the exponent and nothing else, the option
\* key_size the size and nothing else, any other option nothing.  The object
\* returned holds exactly n, e, d, iqmp, p and q, each the number of that name
\* of the generated key.
C15_GenerateDefaults ==
    op = "generate_private_params" =>
        /\ ret.call.public_exponent =
              IF "e" \in DOMAIN arg.kwargs THEN arg.kwargs["e"] ELSE 65537
        /\ ret.call.key_size =
              IF "key_size" \in DOMAIN arg.kwargs THEN arg.kwargs["key_size"] ELSE 4096
        /\ ret.ok
        /\ ret.warnings = <<>>
        /\ ret.obj.cls = "RSAPrivateKeyParams"
        /\ DOMAIN ret.obj.data = {"n", "e", "d", "iqmp", "p", "q"}
        /\ ret.obj.data["n"] = PyInt(arg.private_key_numbers.public_numbers.n)
        /\ ret.obj.data["e"] = PyInt(arg.private_key_numbers.public_numbers.e)
        /\ ret.obj.data["d"] = PyInt(arg.private_key_numbers.d)
        /\ ret.obj.data["iqmp"] = PyInt(arg.private_key_numbers.iqmp)
        /\ ret.obj.data["p"] = PyInt(arg.private_key_numbers.p)
        /\ ret.obj.data["q"] = PyInt(arg.private_key_numbers.q)

\* only the exponent is given: the size is the default
C15_Witness ==
    /\ op = "generate_private_params"
    /\ DOMAIN arg.kwargs = {"e"}
    /\ arg.kwargs["e"] = 3
    /\ ret.call = [public_exponent |-> 3, key_size |-> 4096]
    /\ ret.ok
    /\ ret.obj.data["e"] = PyInt(3)

\* the envelopes a and b have the same header, the same parameters object
\* and the same footer
SameEnvelope(a, b) ==
    /\ a.cls = b.cls
    /\ a.header = b.header
    /\ a.params = b.params
    /\ a.footer = b.footer

DecodedTwoKeys ==
    /\ op = "from_byte_stream_twice"
    /\ arg.cls = key.cls
    /\ out.kind = (IF key.cls = "PrivateKey" THEN "private" ELSE "public")
    /\ ValidEnvelope(key)
    /\ ValidEnvelope(arg.second)

\* C20: from_byte_stream reads the header, the body and the footer of one key
\* and leaves the cursor right after them: on a stream holding the bytes of
\* k1 and then those of k2, the first call returns an envelope equal to k1
\* with the cursor at the end of the bytes of k1, the second an envelope
\* equal to k2 with the cursor at the end of the stream.
C20_ConsumesExactlyOneKey ==
    DecodedTwoKeys =>
        /\ ret.ok
        /\ ret.first.ok
        /\ PublicKey_eq(ret.first.key, key)
        /\ ret.first.pos = Len(out.bytes)
        /\ ret.second.ok
        /\ PublicKey_eq(ret.second.key, arg.second)
        /\ ret.second.pos = Len(arg.byte_string)

\* two private keys of different key types, each with a comment
C20_Witness ==
    /\ DecodedTwoKeys
    /\ key.cls = "PrivateKey"
    /\ key.header["key_type"] = PyStr("ssh-dss")
    /\ key.footer["comment"] = PyStr("test@host")
    /\ arg.second.header["key_type"] = PyStr("ssh-rsa")
    /\ ret.ok
    /\ ret.second.ok
    /\ ret.second.key.params.cls = "RSAPrivateKeyParams"
    /\ ret.pos = Len(arg.byte_string)

\* the envelope a pack task constructs, run alone, and its bytes
AlonePack(init) == IF ~init.ok THEN init ELSE pack_public(init.key)

\* what the operation of a task returns when nothing else runs
Alone(task) ==
    CASE task.kind = "from_bytes" -> from_bytes(task.cls, task.byte_string)
      [] task.kind = "create_public_key_params" ->
            create_public_key_params(PyStr(task.key_type))
      [] task.kind = "create_private_key_params" ->
            create_private_key_params(PyStr(task.key_type))
      [] OTHER ->
            AlonePack(PublicKey_init(task.cls, TaskHeader(task), TaskParams(task),
                                     TaskFooter(task)))

\* C16: whatever the readers have run and however their steps interleaved,
\* failing operations included, the registry holds the entries it was
\* initialised with, and every operation that has returned has returned what
\* it returns when it runs alone.
C16_RegistryReadOnly ==
    /\ registry = KEY_TYPE_MAPPING
    /\ \A r \in Readers :
          readers[r].pc = "done" => readers[r].result = Alone(readers[r].task)

\* one reader failed on an unknown key type while another is in the middle of
\* a decode, between its two lookups
C16_Witness ==
    \E r, s \in Readers :
        /\ readers[r].pc = "done"
        /\ readers[r].task.kind = "from_bytes"
        /\ ~readers[r].result.ok
        /\ readers[r].result.exc = "KeyError"
        /\ readers[s].pc = "footer"
        /\ readers[s].c.ok

\* another value of the type of v
OtherValue(v) ==
    CASE v.t = "int" -> PyInt(v.v + 1)
      [] v.t = "bytes" -> PyBytes(v.v \o <<1>>)
      [] OTHER -> PyStr(IF v.v = "" THEN "test@host" ELSE "")

\* the fields of the parameters of k that its public format does not declare
PrivateOnlyFields(k) ==
    DOMAIN k.params.data \ Names(public_format_instructions_dict(k.params.cls))

\* the envelopes that have the header and the public fields of k, and other
\* values in some of its other fields or another footer
SamePublicPart(k) ==
    {[k EXCEPT !.params.data =
                  [name \in DOMAIN @ |->
                      IF name \in changed THEN OtherValue(@[name]) ELSE @[name]],
               !.footer = footer] :
        changed \in SUBSET PrivateOnlyFields(k),
        footer \in {k.footer, EmptyDict,
                    [name \in DOMAIN k.footer |-> OtherValue(k.footer[name])]}}

\* a PrivateKey was packed with pack_public
PackedPublicOfPrivate ==
    /\ op = "pack_public"
    /\ key.cls = "PrivateKey"

\* C21: pack_public of a PrivateKey writes the key type and the fields of the
\* public format of its parameters, and nothing of the footer: the bytes are
\* those of the header followed by those of the public fields, every
\* PrivateKey with the same header and public fields packs to the same bytes
\* whatever its other fields and its comment, and PublicKey.from_bytes of the
\* bytes returns a public key with exactly the public fields, no bytes being
\* left over.
C21_PackPublicOfPrivate ==
    /\ PackedPublicOfPrivate =>
          /\ \A other \in SamePublicPart(key) : pack_public(other) = ret
          /\ ValidEnvelope(key) =>
                /\ ret.ok
                /\ ret.bytes =
                      write_from_format_instructions_dict(
                          header_format_instructions_dict("PublicKey"),
                          key.header).bytes
                      \o write_from_format_instructions_dict(
                             public_format_instructions_dict(key.params.cls),
                             Project(key.params.data,
                                     Names(public_format_instructions_dict(
                                               key.params.cls)))).bytes
                /\ VariantOf(key.params.cls) = "RSA" =>
                      ret.bytes = StringField(key.header, "key_type")
                                      \o MpintFields(key.params.data, <<"e", "n">>, 1)
    /\ (/\ op = "from_bytes"
        /\ arg.cls = "PublicKey"
        /\ arg.trailer = <<>>
        /\ key.cls = "PrivateKey"
        /\ out.kind = "public"
        /\ ValidEnvelope(key)) =>
          /\ ret.ok
          /\ \A i \in 1..Len(ret.warnings) : ret.warnings[i] # "Excess bytes in key"
          /\ "remainder" \notin DOMAIN ret.key.attrs
          /\ ret.key.header = key.header
          /\ ret.key.footer = EmptyDict
          /\ ret.key.params.data =
                Project(key.params.data,
                        Names(public_format_instructions_dict(key.params.cls)))

C21_Witness ==
    /\ op = "from_bytes"
    /\ arg.cls = "PublicKey"
    /\ arg.trailer = <<>>
    /\ key.cls = "PrivateKey"
    /\ out.kind = "public"
    /\ ValidEnvelope(key)
    /\ key.footer["comment"] = PyStr("test@host")
    /\ key.params.cls = "RSAPrivateKeyParams"
    /\ ret.ok
    /\ ret.key.params.cls = "RSAPublicKeyParams"
    /\ DOMAIN ret.key.params.data = {"e", "n"}
    /\ ret.warnings = <<>>

\* cls.convert_from(key_object) returned an object though cls has no
\* conversion function for key_object: a subclass converted it
ConvertedBySubclass ==
    /\ op = "convert_from"
    /\ OwnFunctions(arg.cls, arg.key_object) = {}
    /\ ret.ok

\* the object the first subclass of cls that converts key_object makes of it
SubclassObject(cls, key_object) ==
    convert_from(Subclasses(cls)[Least(ConvertingSubclasses(cls, key_object))],
                 key_object).obj

\* C22: an object convert_from returns through a subclass is of the class
\* convert_from was called on and holds the fields of the format of that
\* class and no other, each with the value the subclass took from the key
\* object; the fields only the format of the subclass declares (x of DSS; d,
\* iqmp, p, q of RSA; private_public of Ed25519) are not in it.
C22_SubclassResultProjected ==
    ConvertedBySubclass =>
        /\ ConvertingSubclasses(arg.cls, arg.key_object) # {}
        /\ ret.obj.cls = arg.cls
        /\ DOMAIN ret.obj.data = Names(FormatOf(arg.cls))
        /\ \A name \in DOMAIN ret.obj.data :
              ret.obj.data[name] = SubclassObject(arg.cls, arg.key_object).data[name]
        /\ DOMAIN ret.obj.data
              \cap (Names(FormatOf(SubclassObject(arg.cls, arg.key_object).cls))
                        \ Names(FormatOf(arg.cls))) = {}
        /\ DOMAIN ret.obj.data \cap {"x", "d", "iqmp", "private_public"} = {}
        /\ arg.key_object.t \in {"RSAPrivateKey", "RSAPrivateKeyWithSerialization",
                                 "DSAPrivateKey"} =>
              \A name \in DOMAIN ret.obj.data :
                  ret.obj.data[name] = arg.key_object.v[name]

\* RSAPublicKeyParams.convert_from of a private key object
C22_Witness ==
    /\ ConvertedBySubclass
    /\ arg.cls = "RSAPublicKeyParams"
    /\ SubclassObject(arg.cls, arg.key_object).cls = "RSAPrivateKeyParams"
    /\ DOMAIN SubclassObject(arg.cls, arg.key_object).data =
          {"n", "e", "d", "iqmp", "p", "q"}
    /\ DOMAIN ret.obj.data = {"e", "n"}
    /\ ret.obj.data["n"] = arg.key_object.v["n"]

\* C23: convert_to of a destination that is not a class raises ValueError,
\* whatever the class of the parameters object and whatever it holds, be it
\* nothing, so that any conversion function would fail on it; it neither
\* raises NotImplementedError nor returns an object.
C23_NotAClassIsValueError ==
    (op = "convert_to" /\ arg.destination_class \notin KeyObjectTypes) =>
        /\ ~ret.ok
        /\ ret.exc = "ValueError"

C23_Witness ==
    /\ op = "convert_to"
    /\ arg.cls = "RSAPrivateKeyParams"
    /\ arg.destination_class = NotAClass
    /\ ExactlyTyped(arg.params, FormatOf(arg.cls))
    /\ ~ret.ok
    /\ ret.exc = "ValueError"

\* the same of an object that holds nothing
C23_WitnessEmpty ==
    /\ op = "convert_to"
    /\ arg.cls = "DSSPrivateKeyParams"
    /\ arg.destination_class = NotAClass
    /\ arg.params = EmptyDict
    /\ ret.exc = "ValueError"

====
